---- MODULE Spec2Model ----
(***************************************************************************)
(* A model of the PDDL workspace (common/src/PddlWorkspace.ts): the        *)
(* folders and their files, the debounced re-parse timer, the parses that  *)
(* are awaiting their result, and the change events the workspace emits.   *)
(*                                                                         *)
(* insertFile and reParseFile await parseFile: each is modelled by one      *)
(* step for the part that runs synchronously up to the await and one step  *)
(* for the continuation that runs when the parse has resolved.  Callers    *)
(* may call in between.  parseFile awaits nothing on a domain text, so the *)
(* continuations of domain parses run as microtasks: in the order they     *)
(* were queued and before any timer fires.  On every other text parseFile  *)
(* awaits the problem parser and its external pre-processing step, which   *)
(* takes an arbitrary time: those parses resolve in any order.             *)
(* upsertAndParseFile continues in the microtask that follows upsertFile's *)
(* return; that continuation is taken together with the step before it.    *)
(***************************************************************************)
EXTENDS Integers, Sequences, FiniteSets, Bags, TLC

\* ------------------------------------------------------------------ bounds

\* Versions a caller supplies are 0..MaxVersion.
MaxVersion == 1

\* At most MaxTasks parses are awaiting their result at any moment.
MaxTasks == 2

\* Timer handles the runtime hands out are 1..MaxTimers.
MaxTimers == 2

Versions == 0..MaxVersion

TimerIds == 1..MaxTimers

\* ----------------------------------------------------- URIs, texts, names

\* A URI: its scheme, the directory of its path and its base name.
DomainUri == [scheme |-> "file", dir |-> "/w", base |-> "domain.pddl"]

ProblemUri == [scheme |-> "file", dir |-> "/w", base |-> "problem.pddl"]

GitUri == [scheme |-> "git", dir |-> "/w", base |-> "domain.pddl"]

Domain2Uri == [scheme |-> "file", dir |-> "/w", base |-> "domain2.pddl"]

Problem2Uri == [scheme |-> "file", dir |-> "/w", base |-> "problem2.pddl"]

PlanUri == [scheme |-> "file", dir |-> "/w", base |-> "plan.plan"]

HappeningsUri == [scheme |-> "file", dir |-> "/w", base |-> "plan.happenings"]

OtherDomainUri == [scheme |-> "file", dir |-> "/v", base |-> "domain.pddl"]

OtherProblemUri == [scheme |-> "file", dir |-> "/v", base |-> "problem.pddl"]

\* A text is the sequence of its tokens (white space left out).
DomainText == <<"(", "define", "(", "domain", "D", ")", ")">>

DomainText2 == <<"(", "define", "(", "domain", "D", ")", "(", ":predicates", ")", ")">>

ProblemText ==
    <<"(", "define", "(", "problem", "p", ")", "(", ":domain", "d", ")", "(", ":init", ")", ")">>

OtherText == <<"(", "define", ")">>

DomainTextLower == <<"(", "define", "(", "domain", "d", ")", ")">>

Problem2Text ==
    <<"(", "define", "(", "problem", "q", ")", "(", ":domain", "d", ")", "(", ":init", ")", ")">>

PlanText == <<";;!domain:", "d", ";;!problem:", "p">>

HappeningsText == <<";;!domain:", "d", ";;!problem:", "P">>

\* Texts whose brackets do not balance: a domain and a problem whose define is
\* left open, and a text of no kind with a close bracket too many.
UnclosedDomainText == <<"(", "define", "(", "domain", "D", ")">>

UnclosedProblemText == <<"(", "define", "(", "problem", "p", ")", "(", ":domain", "d", ")">>

StrayCloseText == <<"(", "define", ")", ")">>

\* The value of a name that a file does not have (undefined in the source).
Undefined == "<undefined>"

\* String.toLowerCase on the names and keywords the texts use.
ToLowerCase(s) ==
    CASE s = "D" -> "d"
      [] s = "P" -> "p"
      [] s = "DEFINE" -> "define"
      [] s = "(DEFINE" -> "(define"
      [] s = "(PROBLEM" -> "(problem"
      [] s = "(:DOMAIN" -> "(:domain"
      [] s = "(Supply-Demand" -> "(supply-demand"
      [] OTHER -> s

lowerCaseEquals(first, second) ==
    IF first = Undefined THEN second = Undefined
    ELSE IF second = Undefined THEN first = Undefined
    ELSE ToLowerCase(first) = ToLowerCase(second)

\* ------------------------------------------------------------- the parser

\* Whether text starts with the tokens of pattern; "\\S+" stands for a name
\* capture; keywords match whatever their case (the /i flag).
StartsWith(text, pattern) ==
    /\ Len(text) >= Len(pattern)
    /\ \A i \in 1..Len(pattern) :
          \/ pattern[i] = "\\S+" /\ text[i] \notin {"(", ")"}
          \/ pattern[i] # "\\S+" /\ ToLowerCase(text[i]) = pattern[i]

domainPattern == <<"(", "define", "(", "domain", "\\S+", ")">>

problemPattern == <<"(", "define", "(", "problem", "\\S+", ")", "(", ":domain", "\\S+", ")">>

\* A FileInfo as its constructor leaves it: the status of a new FileInfo is
\* Parsed and it has no parsing problems.
NewFileInfo(fileUri, language, version, text, kind, name, domainName, problemName) ==
    [fileUri |-> fileUri, language |-> language, version |-> version, text |-> text,
     status |-> "Parsed", kind |-> kind, name |-> name, domainName |-> domainName,
     problemName |-> problemName, parsingProblems |-> <<>>]

\* PddlSyntaxTreeBuilder, one pass from left to right with the stack of the open
\* brackets: a close bracket that finds the stack empty is an offending token,
\* and so is every bracket still open at the end.  The result is the positions
\* of the offending tokens in the text.
RECURSIVE BuildTree(_, _, _, _)
BuildTree(text, index, stack, offending) ==
    IF index > Len(text) THEN offending \o stack
    ELSE IF text[index] = "(" THEN BuildTree(text, index + 1, Append(stack, index), offending)
    ELSE IF text[index] = ")"
    THEN IF stack = <<>>
         THEN BuildTree(text, index + 1, stack, Append(offending, index))
         ELSE BuildTree(text, index + 1, SubSeq(stack, 1, Len(stack) - 1), offending)
    ELSE BuildTree(text, index + 1, stack, offending)

getOffendingTokens(text) == BuildTree(text, 1, <<>>, <<>>)

\* DocumentPositionResolver.resolveToPosition: the texts have one line, and the
\* offset of a token is the number of tokens before it.
resolveToPosition(offset) == [line |-> 0, character |-> offset]

ParsingProblem(problem, line, character) ==
    [problem |-> problem, line |-> line, character |-> character]

\* appendOffendingTokenToParsingProblems: one ParsingProblem per offending token
appendOffendingTokenToParsingProblems(fileInfo, text) ==
    [fileInfo EXCEPT !.parsingProblems = @ \o
        [i \in 1..Len(getOffendingTokens(text)) |->
            ParsingProblem("Unexpected token: " \o text[getOffendingTokens(text)[i]],
                           resolveToPosition(getOffendingTokens(text)[i] - 1).line,
                           resolveToPosition(getOffendingTokens(text)[i] - 1).character)]]

\* Parser.tryDomain: a DomainInfo when the text starts with (define (domain NAME).
tryDomain(text) == StartsWith(text, domainPattern)

\* PddlProblemParser.parse: a ProblemInfo when the pattern matches the text.
tryProblem(text) == StartsWith(text, problemPattern)

\* The problem and domain names a plan or a happenings file states in its
\* meta data lines.
MetaName(text, key) ==
    IF \E i \in 1..(Len(text) - 1) : text[i] = key
    THEN text[(CHOOSE i \in 1..(Len(text) - 1) :
                  text[i] = key /\ \A j \in 1..(i - 1) : text[j] # key) + 1]
    ELSE Undefined

\* Whether parseFile throws: the language is none of the three it knows.
parseFileThrows(language) == language \notin {"PDDL", "PLAN", "HAPPENINGS"}

\* Error("Unknown language: " + language)
UnknownLanguage(language) == [message |-> "Unknown language: ", language |-> language]

\* A variant of parseFile that tries problem extraction only
parseFileAsProblem(fileUri, language, fileVersion, fileText) ==
    IF tryProblem(fileText)
    THEN NewFileInfo(fileUri, language, fileVersion, fileText, "Problem",
                     fileText[5], fileText[9], Undefined)
    ELSE NewFileInfo(fileUri, language, fileVersion, fileText, "Unknown",
                     Undefined, Undefined, Undefined)

parseFile(fileUri, language, fileVersion, fileText) ==
    IF language = "PDDL"
    THEN IF tryDomain(fileText)
         THEN appendOffendingTokenToParsingProblems(
                  NewFileInfo(fileUri, language, fileVersion, fileText, "Domain",
                              fileText[5], Undefined, Undefined), fileText)
         ELSE IF tryProblem(fileText)
         THEN appendOffendingTokenToParsingProblems(
                  NewFileInfo(fileUri, language, fileVersion, fileText, "Problem",
                              fileText[5], fileText[9], Undefined), fileText)
         ELSE NewFileInfo(fileUri, language, fileVersion, fileText, "Unknown",
                          Undefined, Undefined, Undefined)
    ELSE IF language = "PLAN"
    THEN NewFileInfo(fileUri, language, fileVersion, fileText, "Plan", Undefined,
                     MetaName(fileText, ";;!domain:"), MetaName(fileText, ";;!problem:"))
    ELSE NewFileInfo(fileUri, language, fileVersion, fileText, "Happenings", Undefined,
                     MetaName(fileText, ";;!domain:"), MetaName(fileText, ";;!problem:"))

\* FileInfo.update: a newer version, or any version under force, replaces the
\* version and the text and makes the file Dirty; the result says whether it did.
FileInfoUpdate(fileInfo, version, text, force) ==
    IF version > fileInfo.version \/ force
    THEN [fileInfo |-> [fileInfo EXCEPT !.status = "Dirty", !.version = version,
                                        !.text = text],
          isNewerVersion |-> TRUE]
    ELSE [fileInfo |-> fileInfo, isNewerVersion |-> FALSE]

\* ------------------------------------------------------------- the folders

\* A Map<string, FileInfo> is the sequence of its values in insertion order.
MapHas(files, fileUri) == \E i \in 1..Len(files) : files[i].fileUri = fileUri

MapGet(files, fileUri) == files[CHOOSE i \in 1..Len(files) : files[i].fileUri = fileUri]

\* Map.set: an existing key keeps its place, a new key goes last.
MapSet(files, fileInfo) ==
    IF MapHas(files, fileInfo.fileUri)
    THEN [i \in 1..Len(files) |->
             IF files[i].fileUri = fileInfo.fileUri THEN fileInfo ELSE files[i]]
    ELSE Append(files, fileInfo)

MapDelete(files, fileUri) == SelectSeq(files, LAMBDA f : f.fileUri # fileUri)

getFolderPath(documentUri) == documentUri.dir

HasFolder(fds, folderPath) == \E i \in 1..Len(fds) : fds[i].folderPath = folderPath

GetFolder(fds, folderPath) ==
    fds[CHOOSE i \in 1..Len(fds) : fds[i].folderPath = folderPath]

upsertFolder(fds, folderPath) ==
    IF HasFolder(fds, folderPath) THEN fds
    ELSE Append(fds, [folderPath |-> folderPath, files |-> <<>>])

SetFolderFiles(fds, folderPath, newFiles) ==
    [i \in 1..Len(fds) |->
        IF fds[i].folderPath = folderPath THEN [fds[i] EXCEPT !.files = newFiles]
        ELSE fds[i]]

\* A variant of Folder.add that stores a file whatever its scheme
FolderAddAny(fds, fileInfo) ==
    SetFolderFiles(fds, getFolderPath(fileInfo.fileUri),
                   MapSet(GetFolder(fds, getFolderPath(fileInfo.fileUri)).files, fileInfo))

\* Folder.add: a file of the "git" scheme is not stored.
FolderAdd(fds, fileInfo) ==
    IF fileInfo.fileUri.scheme # "git"
    THEN SetFolderFiles(fds, getFolderPath(fileInfo.fileUri),
             MapSet(GetFolder(fds, getFolderPath(fileInfo.fileUri)).files, fileInfo))
    ELSE fds

\* Folder.remove
FolderRemove(fds, fileUri) ==
    SetFolderFiles(fds, getFolderPath(fileUri),
        MapDelete(GetFolder(fds, getFolderPath(fileUri)).files, fileUri))

\* getFileInfo(fileUri) returns a FileInfo
HasFileInfo(fds, fileUri) ==
    /\ HasFolder(fds, getFolderPath(fileUri))
    /\ MapHas(GetFolder(fds, getFolderPath(fileUri)).files, fileUri)

getFileInfo(fds, fileUri) == MapGet(GetFolder(fds, getFolderPath(fileUri)).files, fileUri)

\* The files of a folder that may not exist
FilesOfFolder(fds, folderPath) ==
    IF HasFolder(fds, folderPath) THEN GetFolder(fds, folderPath).files ELSE <<>>

RECURSIVE Flatten(_)
Flatten(seqs) == IF seqs = <<>> THEN <<>> ELSE Head(seqs) \o Flatten(Tail(seqs))

\* getAllFiles: the files of every folder, folder by folder
getAllFiles(fds) == Flatten([i \in 1..Len(fds) |-> fds[i].files])

\* ------------------------------------------------------------ the workspace

VARIABLES
    folders,                    \* PddlWorkspace.folders: the folders in creation order
    parsingTimeout,             \* the handle in the field parsingTimeout (0: undefined)
    timers,                     \* the handles of the timers the runtime holds pending
    lastVersionUpdateEmitted,   \* the map of that name: URI -> version
    problemToDomainMap,         \* explicit associations: problem URI -> domain URI
    planToProblemMap,           \* explicit associations: plan URI -> problem URI
    tasks,                      \* the parses awaiting the problem parser (a bag)
    microtasks,                 \* the continuations queued behind resolved parses
    emitted,                    \* the events the last step emitted, in order
    thrown                      \* the errors the last step threw to its caller

coreVars == <<folders, parsingTimeout, timers, lastVersionUpdateEmitted,
              problemToDomainMap, planToProblemMap, tasks, microtasks, emitted,
              thrown>>

\* The workspace object as one value, handed through the methods below.
WS ==
    [folders |-> folders, parsingTimeout |-> parsingTimeout, timers |-> timers,
     lastVersionUpdateEmitted |-> lastVersionUpdateEmitted,
     problemToDomainMap |-> problemToDomainMap, planToProblemMap |-> planToProblemMap,
     tasks |-> tasks, microtasks |-> microtasks, events |-> <<>>, thrown |-> <<>>]

\* Map.set on a map from URIs
MapPut(map, key, value) ==
    [k \in DOMAIN map \cup {key} |-> IF k = key THEN value ELSE map[k]]

Event(symbol, fileInfo) ==
    [symbol |-> symbol, fileUri |-> fileInfo.fileUri, version |-> fileInfo.version]

\* A variant of emitIfNew that drops an UPDATED only when its version is older
\* than the last one emitted
emitIfNotOlder(ws, symbol, fileInfo) ==
    IF symbol = "UPDATED"
    THEN IF /\ fileInfo.fileUri \in DOMAIN ws.lastVersionUpdateEmitted
            /\ fileInfo.version < ws.lastVersionUpdateEmitted[fileInfo.fileUri]
         THEN ws
         ELSE [ws EXCEPT !.lastVersionUpdateEmitted =
                             MapPut(@, fileInfo.fileUri, fileInfo.version),
                         !.events = Append(@, Event(symbol, fileInfo))]
    ELSE [ws EXCEPT !.events = Append(@, Event(symbol, fileInfo))]

\* A variant of emitIfNew that drops every UPDATED of a URI after its first
emitIfFirst(ws, symbol, fileInfo) ==
    IF symbol = "UPDATED"
    THEN IF fileInfo.fileUri \in DOMAIN ws.lastVersionUpdateEmitted
         THEN ws
         ELSE [ws EXCEPT !.lastVersionUpdateEmitted =
                             MapPut(@, fileInfo.fileUri, fileInfo.version),
                         !.events = Append(@, Event(symbol, fileInfo))]
    ELSE [ws EXCEPT !.events = Append(@, Event(symbol, fileInfo))]

\* emitIfNew: an UPDATED event is dropped when its version is not above the last
\* version emitted for the URI
emitIfNew(ws, symbol, fileInfo) ==
    IF symbol = "UPDATED"
    THEN IF /\ fileInfo.fileUri \in DOMAIN ws.lastVersionUpdateEmitted
            /\ fileInfo.version <= ws.lastVersionUpdateEmitted[fileInfo.fileUri]
         THEN ws
         ELSE [ws EXCEPT !.lastVersionUpdateEmitted =
                             MapPut(@, fileInfo.fileUri, fileInfo.version),
                         !.events = Append(@, Event(symbol, fileInfo))]
    ELSE [ws EXCEPT !.events = Append(@, Event(symbol, fileInfo))]

\* FileInfo.setStatus on a FileInfo a folder stores
SetStatus(fds, fileUri, status) ==
    SetFolderFiles(fds, getFolderPath(fileUri),
        MapSet(GetFolder(fds, getFolderPath(fileUri)).files,
               [getFileInfo(fds, fileUri) EXCEPT !.status = status]))

\* A variant of invalidateDiagnostics that discards the text of the file
invalidateDiscarding(ws, fileInfo) ==
    emitIfNew([ws EXCEPT !.folders =
                   SetFolderFiles(@, getFolderPath(fileInfo.fileUri),
                       MapSet(GetFolder(@, getFolderPath(fileInfo.fileUri)).files,
                              [getFileInfo(@, fileInfo.fileUri)
                                  EXCEPT !.status = "Parsed", !.text = <<>>]))],
              "UPDATED", fileInfo)

invalidateDiagnostics(ws, fileInfo) ==
    emitIfNew([ws EXCEPT !.folders = SetStatus(@, fileInfo.fileUri, "Parsed")],
              "UPDATED", fileInfo)

\* Folder.getProblemFilesFor via getProblemFiles
getProblemFiles(fds, domainInfo) ==
    SelectSeq(FilesOfFolder(fds, getFolderPath(domainInfo.fileUri)),
              LAMBDA f : f.kind = "Problem" /\ lowerCaseEquals(f.domainName, domainInfo.name))

getPlanFiles(fds, problemInfo) ==
    SelectSeq(FilesOfFolder(fds, getFolderPath(problemInfo.fileUri)),
              LAMBDA f : /\ f.kind = "Plan"
                         /\ lowerCaseEquals(f.problemName, problemInfo.name)
                         /\ lowerCaseEquals(f.domainName, problemInfo.domainName))

getHappeningsFiles(fds, problemInfo) ==
    SelectSeq(FilesOfFolder(fds, getFolderPath(problemInfo.fileUri)),
              LAMBDA f : /\ f.kind = "Happenings"
                         /\ lowerCaseEquals(f.problemName, problemInfo.name)
                         /\ lowerCaseEquals(f.domainName, problemInfo.domainName))

\* forEach(info => invalidateDiagnostics(info))
RECURSIVE InvalidateEach(_, _)
InvalidateEach(ws, infos) ==
    IF infos = <<>> THEN ws
    ELSE InvalidateEach(invalidateDiagnostics(ws, Head(infos)), Tail(infos))

markPlansAsDirty(ws, problemInfo) ==
    LET ws1 == InvalidateEach(ws, getPlanFiles(ws.folders, problemInfo))
    IN  InvalidateEach(ws1, getHappeningsFiles(ws1.folders, problemInfo))

\* forEach(problemInfo => { invalidateDiagnostics; markPlansAsDirty })
RECURSIVE MarkEachProblem(_, _)
MarkEachProblem(ws, problems) ==
    IF problems = <<>> THEN ws
    ELSE MarkEachProblem(markPlansAsDirty(invalidateDiagnostics(ws, Head(problems)),
                                          Head(problems)),
                         Tail(problems))

markProblemsAsDirty(ws, domainInfo) ==
    MarkEachProblem(ws, getProblemFiles(ws.folders, domainInfo))

\* A variant of cancelScheduledParsing that clears no timer
cancelNothing(ws) == ws

\* clearTimeout(this.parsingTimeout), when the field is set
cancelScheduledParsing(ws) ==
    IF ws.parsingTimeout # 0
    THEN [ws EXCEPT !.timers = @ \ {ws.parsingTimeout}]
    ELSE ws

\* setTimeout returns a handle that no pending timer has
NewTimer(pending) == CHOOSE h \in TimerIds \ pending : \A g \in TimerIds \ pending : h <= g

\* A variant of scheduleParsing that leaves a pending timer to run
scheduleParsingOnce(ws) ==
    IF ws.timers # {} THEN ws
    ELSE [ws EXCEPT !.parsingTimeout = NewTimer(ws.timers),
                    !.timers = @ \cup {NewTimer(ws.timers)}]

scheduleParsing(ws) ==
    LET ws1 == cancelScheduledParsing(ws)
        h == NewTimer(ws.timers)
    IN  [ws1 EXCEPT !.parsingTimeout = h, !.timers = @ \cup {h}]

Task(kind, fileUri, language, version, text) ==
    [kind |-> kind, fileUri |-> fileUri, language |-> language, version |-> version,
     text |-> text]

\* parseFile returns without an await when tryDomain succeeds
ResolvesAtOnce(task) == task.language = "PDDL" /\ tryDomain(task.text)

\* await this.parseFile(...): the continuation waits for the parse
Await(ws, task) ==
    IF ResolvesAtOnce(task)
    THEN [ws EXCEPT !.microtasks = Append(@, task)]
    ELSE [ws EXCEPT !.tasks = @ (+) SetToBag({task})]

\* The continuation of task runs
Settle(ws, task) ==
    IF ResolvesAtOnce(task)
    THEN [ws EXCEPT !.microtasks = Tail(@)]
    ELSE [ws EXCEPT !.tasks = @ (-) SetToBag({task})]

\* reParseFile up to its await: the file leaves its folder and its parse starts
reParseFileStart(ws, fileInfo) ==
    Await([ws EXCEPT !.folders = FolderRemove(upsertFolder(@, getFolderPath(fileInfo.fileUri)),
                                              fileInfo.fileUri)],
          Task("reparse", fileInfo.fileUri, fileInfo.language, fileInfo.version,
               fileInfo.text))

\* A variant of reParseFile from its await on that does not store the new FileInfo
reParseFileResumeDropping(ws, task) ==
    emitIfNew(Settle(ws, task), "UPDATED",
              parseFile(task.fileUri, task.language, task.version, task.text))

\* reParseFile from its await on: the new FileInfo enters the folder
reParseFileResume(ws, task) ==
    LET fileInfo == parseFile(task.fileUri, task.language, task.version, task.text)
    IN  emitIfNew([Settle(ws, task) EXCEPT !.folders = FolderAdd(@, fileInfo)],
                  "UPDATED", fileInfo)

\* A variant of insertFileStart that also schedules the re-parse pass
insertFileStartScheduling(ws, fileUri, language, fileVersion, fileText) ==
    IF parseFileThrows(language)
    THEN [ws EXCEPT !.thrown = Append(@, UnknownLanguage(language))]
    ELSE scheduleParsing(Await(ws, Task("insert", fileUri, language, fileVersion, fileText)))

\* A variant of insertFileStart that awaits the parse of a text in any language
insertFileStartOfAnyLanguage(ws, fileUri, language, fileVersion, fileText) ==
    Await(ws, Task("insert", fileUri, language, fileVersion, fileText))

\* insertFile up to its await: on an unknown language parseFile throws before it,
\* and the error passes through insertFile and upsertFile to the caller
insertFileStart(ws, fileUri, language, fileVersion, fileText) ==
    IF parseFileThrows(language)
    THEN [ws EXCEPT !.thrown = Append(@, UnknownLanguage(language))]
    ELSE Await(ws, Task("insert", fileUri, language, fileVersion, fileText))

\* A variant of insertFile from its await on that emits INSERTED before UPDATED
insertFileResumeInsertedFirst(ws, task) ==
    LET fileInfo == parseFile(task.fileUri, task.language, task.version, task.text)
        ws1 == [Settle(ws, task) EXCEPT !.folders = FolderAdd(@, fileInfo)]
        ws2 == IF fileInfo.kind = "Domain" THEN markProblemsAsDirty(ws1, fileInfo)
               ELSE IF fileInfo.kind = "Problem" THEN markPlansAsDirty(ws1, fileInfo)
               ELSE ws1
    IN  emitIfNew(emitIfNew(ws2, "INSERTED", fileInfo), "UPDATED", fileInfo)

\* insertFile from its await on
insertFileResume(ws, task) ==
    LET fileInfo == parseFile(task.fileUri, task.language, task.version, task.text)
        ws1 == [Settle(ws, task) EXCEPT !.folders = FolderAdd(@, fileInfo)]
        ws2 == IF fileInfo.kind = "Domain" THEN markProblemsAsDirty(ws1, fileInfo)
               ELSE IF fileInfo.kind = "Problem" THEN markPlansAsDirty(ws1, fileInfo)
               ELSE ws1
    IN  emitIfNew(emitIfNew(ws2, "UPDATED", fileInfo), "INSERTED", fileInfo)

\* A variant of upsertFileExisting that schedules whatever update returns
upsertFileExistingAlways(ws, fileUri, fileVersion, fileText, force) ==
    LET upd == FileInfoUpdate(getFileInfo(ws.folders, fileUri), fileVersion, fileText, force)
    IN  scheduleParsing([ws EXCEPT !.folders = SetFolderFiles(@, getFolderPath(fileUri),
                              MapSet(GetFolder(@, getFolderPath(fileUri)).files, upd.fileInfo))])

\* upsertFile on a URI its folder stores: update, and schedule when it took
upsertFileExisting(ws, fileUri, fileVersion, fileText, force) ==
    LET upd == FileInfoUpdate(getFileInfo(ws.folders, fileUri), fileVersion, fileText, force)
        ws1 == [ws EXCEPT !.folders = SetFolderFiles(@, getFolderPath(fileUri),
                              MapSet(GetFolder(@, getFolderPath(fileUri)).files, upd.fileInfo))]
    IN  IF upd.isNewerVersion THEN scheduleParsing(ws1) ELSE ws1

upsertFile(ws, fileUri, language, fileVersion, fileText, force) ==
    LET ws1 == [ws EXCEPT !.folders = upsertFolder(@, getFolderPath(fileUri))]
    IN  IF HasFileInfo(ws1.folders, fileUri)
        THEN upsertFileExisting(ws1, fileUri, fileVersion, fileText, force)
        ELSE insertFileStart(ws1, fileUri, language, fileVersion, fileText)

\* upsertAndParseFile: the file upsertFile returns is re-parsed when it is Dirty
\* (a file that insertFile has just made is Parsed)
upsertAndParseFile(ws, fileUri, language, fileVersion, fileText) ==
    LET ws1 == upsertFile(ws, fileUri, language, fileVersion, fileText, FALSE)
    IN  IF /\ HasFileInfo(ws.folders, fileUri)
           /\ getFileInfo(ws1.folders, fileUri).status = "Dirty"
        THEN reParseFileStart(ws1, getFileInfo(ws1.folders, fileUri))
        ELSE ws1

\* getAllFilesIf(fileInfo => fileInfo.getStatus() === FileStatus.Dirty)
getAllFilesIf(fds, status) == SelectSeq(getAllFiles(fds), LAMBDA f : f.status = status)

RECURSIVE ReParseEach(_, _)
ReParseEach(ws, infos) ==
    IF infos = <<>> THEN ws
    ELSE ReParseEach(reParseFileStart(ws, Head(infos)), Tail(infos))

\* A variant of parseAllDirty that re-parses the first Dirty file only
parseFirstDirty(ws) ==
    IF getAllFilesIf(ws.folders, "Dirty") = <<>> THEN ws
    ELSE reParseFileStart(ws, Head(getAllFilesIf(ws.folders, "Dirty")))

\* parseAllDirty: every Dirty file runs reParseFile up to its await
parseAllDirty(ws) == ReParseEach(ws, getAllFilesIf(ws.folders, "Dirty"))

MapValues(map) == {map[k] : k \in DOMAIN map}

\* A variant of hasExplicitAssociations that looks at the keys of the maps only
hasAssociationsOfItsOwn(ws, documentUri) ==
    \/ documentUri \in DOMAIN ws.problemToDomainMap
    \/ documentUri \in DOMAIN ws.planToProblemMap

hasExplicitAssociations(ws, documentUri) ==
    \/ documentUri \in DOMAIN ws.problemToDomainMap
    \/ documentUri \in MapValues(ws.problemToDomainMap)
    \/ documentUri \in DOMAIN ws.planToProblemMap
    \/ documentUri \in MapValues(ws.planToProblemMap)

\* A value that may be undefined is the sequence of at most one value.
None == <<>>

Some(value) == <<value>>

\* A variant of removeFile that removes the file before it emits REMOVING
removeFileThenEmit(ws, documentUri, removeAllReferences) ==
    IF hasExplicitAssociations(ws, documentUri) /\ ~removeAllReferences
    THEN [ws |-> ws, result |-> FALSE, listened |-> None]
    ELSE IF HasFileInfo(ws.folders, documentUri)
    THEN LET without == [ws EXCEPT !.folders = FolderRemove(@, documentUri)]
         IN  [ws |-> emitIfNew(without, "REMOVING", getFileInfo(ws.folders, documentUri)),
              result |-> TRUE, listened |-> Some(without.folders)]
    ELSE [ws |-> ws, result |-> FALSE, listened |-> None]

\* removeFile: the workspace it leaves, the value it returns and the folders that
\* a listener of its REMOVING event finds when the event is emitted
removeFile(ws, documentUri, removeAllReferences) ==
    IF hasExplicitAssociations(ws, documentUri) /\ ~removeAllReferences
    THEN [ws |-> ws, result |-> FALSE, listened |-> None]
    ELSE IF HasFileInfo(ws.folders, documentUri)
    THEN LET emitting == emitIfNew(ws, "REMOVING", getFileInfo(ws.folders, documentUri))
         IN  [ws |-> [emitting EXCEPT !.folders = FolderRemove(@, documentUri)],
              result |-> TRUE, listened |-> Some(emitting.folders)]
    ELSE [ws |-> ws, result |-> FALSE, listened |-> None]

\* ------------------------------------------------------------ associations

associateProblemToDomain(ws, problemInfo, domainInfo) ==
    [ws EXCEPT !.problemToDomainMap = MapPut(@, problemInfo.fileUri, domainInfo.fileUri)]

associatePlanToProblem(ws, planUri, problemFileInfo) ==
    [ws EXCEPT !.planToProblemMap = MapPut(@, planUri, problemFileInfo.fileUri)]

\* Folder.getDomainFilesFor
FolderGetDomainFilesFor(fds, folderPath, problemInfo) ==
    SelectSeq(FilesOfFolder(fds, folderPath),
              LAMBDA f : f.kind = "Domain" /\ lowerCaseEquals(f.name, problemInfo.domainName))

\* Folder.getProblemFileWithName: the first problem of the folder with that name
FolderGetProblemFileWithName(fds, folderPath, problemName) ==
    LET found == SelectSeq(FilesOfFolder(fds, folderPath),
                           LAMBDA f : f.kind = "Problem" /\ lowerCaseEquals(f.name, problemName))
    IN  IF found = <<>> THEN None ELSE Some(Head(found))

\* A variant of getDomainFilesFor that matches by name only
getDomainFilesForByName(ws, problemFile) ==
    IF ~HasFolder(ws.folders, getFolderPath(problemFile.fileUri)) THEN <<>>
    ELSE FolderGetDomainFilesFor(ws.folders, getFolderPath(problemFile.fileUri), problemFile)

getDomainFilesFor(ws, problemFile) ==
    IF problemFile.fileUri \in DOMAIN ws.problemToDomainMap
    THEN IF HasFileInfo(ws.folders, ws.problemToDomainMap[problemFile.fileUri])
         THEN <<getFileInfo(ws.folders, ws.problemToDomainMap[problemFile.fileUri])>>
         ELSE <<>>
    ELSE IF ~HasFolder(ws.folders, getFolderPath(problemFile.fileUri)) THEN <<>>
    ELSE FolderGetDomainFilesFor(ws.folders, getFolderPath(problemFile.fileUri), problemFile)

\* A variant of getDomainFileFor that settles for the first of several domains
getDomainFileForFirst(ws, problemFile) ==
    IF getDomainFilesFor(ws, problemFile) = <<>> THEN None
    ELSE Some(Head(getDomainFilesFor(ws, problemFile)))

getDomainFileFor(ws, problemFile) ==
    IF Len(getDomainFilesFor(ws, problemFile)) = 1
    THEN Some(getDomainFilesFor(ws, problemFile)[1])
    ELSE None

getProblemFileForPlan(ws, planInfo) ==
    IF planInfo.fileUri \in DOMAIN ws.planToProblemMap
    THEN IF HasFileInfo(ws.folders, ws.planToProblemMap[planInfo.fileUri])
         THEN Some(getFileInfo(ws.folders, ws.planToProblemMap[planInfo.fileUri]))
         ELSE None
    ELSE IF ~HasFolder(ws.folders, getFolderPath(planInfo.fileUri)) THEN None
    ELSE FolderGetProblemFileWithName(ws.folders, getFolderPath(planInfo.fileUri),
                                      planInfo.problemName)

getProblemFileForHappenings(ws, happeningsInfo) ==
    IF ~HasFolder(ws.folders, getFolderPath(happeningsInfo.fileUri)) THEN None
    ELSE FolderGetProblemFileWithName(ws.folders, getFolderPath(happeningsInfo.fileUri),
                                      happeningsInfo.problemName)

\* A variant of asDomain that settles for the first of several domains
asDomainOfFirst(ws, fileInfo) ==
    IF fileInfo.kind = "Domain" THEN Some(fileInfo)
    ELSE IF fileInfo.kind = "Problem" THEN getDomainFileForFirst(ws, fileInfo)
    ELSE IF fileInfo.kind = "Plan"
    THEN IF getProblemFileForPlan(ws, fileInfo) = None THEN None
         ELSE getDomainFileForFirst(ws, getProblemFileForPlan(ws, fileInfo)[1])
    ELSE IF fileInfo.kind = "Happenings"
    THEN IF getProblemFileForHappenings(ws, fileInfo) = None THEN None
         ELSE getDomainFileForFirst(ws, getProblemFileForHappenings(ws, fileInfo)[1])
    ELSE None

asDomain(ws, fileInfo) ==
    IF fileInfo.kind = "Domain" THEN Some(fileInfo)
    ELSE IF fileInfo.kind = "Problem" THEN getDomainFileFor(ws, fileInfo)
    ELSE IF fileInfo.kind = "Plan"
    THEN IF getProblemFileForPlan(ws, fileInfo) = None THEN None
         ELSE getDomainFileFor(ws, getProblemFileForPlan(ws, fileInfo)[1])
    ELSE IF fileInfo.kind = "Happenings"
    THEN IF getProblemFileForHappenings(ws, fileInfo) = None THEN None
         ELSE getDomainFileFor(ws, getProblemFileForHappenings(ws, fileInfo)[1])
    ELSE None

\* ---------------------------------------------------------- the syntax tree

\* A node of the syntax tree: the type and the text of its token and its child
\* nodes.  The children of a bracket lie between its token and its close
\* bracket.  The text of an operator bracket is the bracket with its keyword.
SyntaxNode(type, text, children) == [type |-> type, text |-> text, children |-> children]

Leaf(type, text) == SyntaxNode(type, text, <<>>)

Other(text) == Leaf("Other", text)

Space == Leaf("Whitespace", " ")

Comment == Leaf("Comment", "; c")

Plain(children) == SyntaxNode("OpenBracket", "(", children)

Operator(text, children) == SyntaxNode("OpenBracketOperator", text, children)

\* The argument of a call that passes undefined for a node
UndefinedNode == SyntaxNode("Undefined", "", <<>>)

\* isOpenBracket(token)
isOpenBracket(node) == node.type \in {"OpenBracket", "OpenBracketOperator"}

getNonWhitespaceChildren(node) == SelectSeq(node.children, LAMBDA n : n.type # "Whitespace")

\* getNonWhitespaceChildren().filter(n => n.isNotType(PddlTokenType.Comment))
NonCommentTokens(node) ==
    SelectSeq(getNonWhitespaceChildren(node), LAMBDA n : n.type # "Comment")

RECURSIVE Concat(_)
Concat(texts) == IF texts = <<>> THEN "" ELSE Head(texts) \o Concat(Tail(texts))

\* getText: the text the node spans, from its token to its close bracket
RECURSIVE getText(_)
getText(node) ==
    node.text \o Concat([i \in 1..Len(node.children) |-> getText(node.children[i])])
              \o (IF isOpenBracket(node) THEN ")" ELSE "")

\* getNestedText: the text between the token and the close bracket
getNestedText(node) == Concat([i \in 1..Len(node.children) |-> getText(node.children[i])])

\* getFirstChild(type, /.*/)
getFirstChild(node, type) ==
    IF SelectSeq(node.children, LAMBDA n : n.type = type) = <<>> THEN None
    ELSE Some(Head(SelectSeq(node.children, LAMBDA n : n.type = type)))

\* getFirstOpenBracket(keyword): the first operator bracket with that keyword,
\* in any case
getFirstOpenBracket(node, keyword) ==
    IF SelectSeq(node.children,
                 LAMBDA n : /\ n.type = "OpenBracketOperator"
                            /\ ToLowerCase(n.text) = "(" \o keyword) = <<>>
    THEN None
    ELSE Some(Head(SelectSeq(node.children,
                 LAMBDA n : /\ n.type = "OpenBracketOperator"
                            /\ ToLowerCase(n.text) = "(" \o keyword)))

\* tokenText.match(/\(\s*supply-demand/i) on the spellings the texts use
MatchesSupplyDemand(tokenText) ==
    ToLowerCase(tokenText) \in {"(supply-demand", "( supply-demand"}

\* What follows the bracket in the text of a bracket token
Keywords ==
    {"", "at", "=", "not", "forall", "assign", "increase", "decrease", "supply-demand",
     "Supply-Demand", ":init"}

\* String.substr(1) on the token texts: the text without its first character
Substr1(tokenText) ==
    IF \E tail \in Keywords : "(" \o tail = tokenText
    THEN CHOOSE tail \in Keywords : "(" \o tail = tokenText
    ELSE ""

\* A number or a boolean is written the way JavaScript prints it.
NaN == "NaN"

\* parseFloat on the texts of the tokens: the number a text starts with
parseFloat(text) ==
    CASE text = "0" -> "0"
      [] text = "5" -> "5"
      [] text = "5s" -> "5"
      [] text = "12" -> "12"
      [] OTHER -> NaN

\* ------------------------------------------------------- the problem parser

VariableValue(variableName, value) ==
    [variableName |-> variableName, value |-> value, supported |-> TRUE]

\* A value the parser does not support keeps the text it was written as
UnsupportedVariableValue(pddlText) ==
    [variableName |-> pddlText, value |-> Undefined, supported |-> FALSE]

\* VariableValue.negate: a new value with !value
negate(variableValue) ==
    VariableValue(variableValue.variableName,
                  IF variableValue.value \in {"false", "0", NaN, Undefined} THEN "true"
                  ELSE "false")

TimedVariableValueFrom(time, variableValue) ==
    [time |-> time, variableName |-> variableValue.variableName,
     value |-> variableValue.value, supported |-> variableValue.supported]

SupplyDemand(name) == [name |-> name]

RECURSIVE parseVariableValue(_)

\* A variant of parseVariableValue that counts the comments of a (= ...) bracket
\* among its tokens
parseVariableValueWithComments(node) ==
    IF node = UndefinedNode THEN None
    ELSE IF node.text = "(="
    THEN IF /\ Len(getNonWhitespaceChildren(node)) > 1
            /\ getNonWhitespaceChildren(node)[1].type = "OpenBracket"
            /\ getNonWhitespaceChildren(node)[2].type = "Other"
         THEN Some(VariableValue(getNestedText(getNonWhitespaceChildren(node)[1]),
                                 parseFloat(getText(getNonWhitespaceChildren(node)[2]))))
         ELSE None
    ELSE IF node.text = "(not"
    THEN LET nested == IF getFirstChild(node, "OpenBracket") # None
                       THEN getFirstChild(node, "OpenBracket")
                       ELSE getFirstChild(node, "OpenBracketOperator")
         IN  IF nested = None THEN None
             ELSE IF parseVariableValue(nested[1]) = None THEN None
             ELSE Some(negate(parseVariableValue(nested[1])[1]))
    ELSE IF node.text \in {"(forall", "(assign", "(increase", "(decrease"}
    THEN Some(UnsupportedVariableValue(getText(node)))
    ELSE IF \E i \in 1..Len(node.children) : isOpenBracket(node.children[i]) THEN None
    ELSE Some(VariableValue(Substr1(node.text) \o getNestedText(node), "true"))

\* A variant of parseVariableValue that returns the value of the fact inside a
\* (not ...) bracket as it is
parseVariableValueOfInner(node) ==
    IF node = UndefinedNode THEN None
    ELSE IF node.text = "(="
    THEN IF /\ Len(NonCommentTokens(node)) > 1
            /\ NonCommentTokens(node)[1].type = "OpenBracket"
            /\ NonCommentTokens(node)[2].type = "Other"
         THEN Some(VariableValue(getNestedText(NonCommentTokens(node)[1]),
                                 parseFloat(getText(NonCommentTokens(node)[2]))))
         ELSE None
    ELSE IF node.text = "(not"
    THEN LET nested == IF getFirstChild(node, "OpenBracket") # None
                       THEN getFirstChild(node, "OpenBracket")
                       ELSE getFirstChild(node, "OpenBracketOperator")
         IN  IF nested = None THEN None
             ELSE parseVariableValue(nested[1])
    ELSE IF node.text \in {"(forall", "(assign", "(increase", "(decrease"}
    THEN Some(UnsupportedVariableValue(getText(node)))
    ELSE IF \E i \in 1..Len(node.children) : isOpenBracket(node.children[i]) THEN None
    ELSE Some(VariableValue(Substr1(node.text) \o getNestedText(node), "true"))

\* A variant of parseVariableValue that knows forall and assign only
parseVariableValueOfTwo(node) ==
    IF node = UndefinedNode THEN None
    ELSE IF node.text = "(="
    THEN IF /\ Len(NonCommentTokens(node)) > 1
            /\ NonCommentTokens(node)[1].type = "OpenBracket"
            /\ NonCommentTokens(node)[2].type = "Other"
         THEN Some(VariableValue(getNestedText(NonCommentTokens(node)[1]),
                                 parseFloat(getText(NonCommentTokens(node)[2]))))
         ELSE None
    ELSE IF node.text = "(not"
    THEN LET nested == IF getFirstChild(node, "OpenBracket") # None
                       THEN getFirstChild(node, "OpenBracket")
                       ELSE getFirstChild(node, "OpenBracketOperator")
         IN  IF nested = None THEN None
             ELSE IF parseVariableValue(nested[1]) = None THEN None
             ELSE Some(negate(parseVariableValue(nested[1])[1]))
    ELSE IF node.text \in {"(forall", "(assign"}
    THEN Some(UnsupportedVariableValue(getText(node)))
    ELSE IF \E i \in 1..Len(node.children) : isOpenBracket(node.children[i]) THEN None
    ELSE Some(VariableValue(Substr1(node.text) \o getNestedText(node), "true"))

parseVariableValue(node) ==
    IF node = UndefinedNode THEN None
    ELSE IF node.text = "(="
    THEN IF /\ Len(NonCommentTokens(node)) > 1
            /\ NonCommentTokens(node)[1].type = "OpenBracket"
            /\ NonCommentTokens(node)[2].type = "Other"
         THEN Some(VariableValue(getNestedText(NonCommentTokens(node)[1]),
                                 parseFloat(getText(NonCommentTokens(node)[2]))))
         ELSE None
    ELSE IF node.text = "(not"
    THEN LET nested == IF getFirstChild(node, "OpenBracket") # None
                       THEN getFirstChild(node, "OpenBracket")
                       ELSE getFirstChild(node, "OpenBracketOperator")
         IN  IF nested = None THEN None
             ELSE IF parseVariableValue(nested[1]) = None THEN None
             ELSE Some(negate(parseVariableValue(nested[1])[1]))
    ELSE IF node.text \in {"(forall", "(assign", "(increase", "(decrease"}
    THEN Some(UnsupportedVariableValue(getText(node)))
    ELSE IF \E i \in 1..Len(node.children) : isOpenBracket(node.children[i]) THEN None
    ELSE Some(VariableValue(Substr1(node.text) \o getNestedText(node), "true"))

\* A variant of parseInit that takes every bracket for an untimed fact
parseInitUntimed(bracket) ==
    IF parseVariableValue(bracket) # None
    THEN Some(TimedVariableValueFrom("0", parseVariableValue(bracket)[1]))
    ELSE None

parseInit(bracket) ==
    IF /\ bracket.text = "(at"
       /\ Len(NonCommentTokens(bracket)) > 1
       /\ parseFloat(getText(NonCommentTokens(bracket)[1])) # NaN
       /\ parseVariableValue(NonCommentTokens(bracket)[2]) # None
    THEN Some(TimedVariableValueFrom(parseFloat(getText(NonCommentTokens(bracket)[1])),
                                     parseVariableValue(NonCommentTokens(bracket)[2])[1]))
    ELSE IF parseVariableValue(bracket) # None
    THEN Some(TimedVariableValueFrom("0", parseVariableValue(bracket)[1]))
    ELSE None

parseSupplyDemand(node) ==
    IF /\ Len(getNonWhitespaceChildren(node)) > 0
       /\ getNonWhitespaceChildren(node)[1].type = "Other"
    THEN Some(SupplyDemand(getText(getNonWhitespaceChildren(node)[1])))
    ELSE None

\* .map(parse).filter(value => !!value).map(value => value!)
Defined(values) == Flatten(values)

\* A variant of parseInitSection that returns the facts last to first
parseInitSectionBackwards(initNode) ==
    LET brackets == SelectSeq(initNode.children,
                              LAMBDA n : isOpenBracket(n) /\ ~MatchesSupplyDemand(n.text))
        supplies == SelectSeq(initNode.children,
                              LAMBDA n : /\ n.type = "OpenBracketOperator"
                                         /\ MatchesSupplyDemand(n.text))
    IN  [inits |-> Defined([i \in 1..Len(brackets) |->
                               parseInit(brackets[Len(brackets) + 1 - i])]),
         supplyDemands |-> Defined([i \in 1..Len(supplies) |-> parseSupplyDemand(supplies[i])])]

\* A variant of parseInitSection that parses every bracket as a fact
parseInitSectionOfAll(initNode) ==
    LET brackets == SelectSeq(initNode.children, isOpenBracket)
        supplies == SelectSeq(initNode.children,
                              LAMBDA n : /\ n.type = "OpenBracketOperator"
                                         /\ MatchesSupplyDemand(n.text))
    IN  [inits |-> Defined([i \in 1..Len(brackets) |-> parseInit(brackets[i])]),
         supplyDemands |-> Defined([i \in 1..Len(supplies) |-> parseSupplyDemand(supplies[i])])]

parseInitSection(initNode) ==
    LET brackets == SelectSeq(SelectSeq(initNode.children, isOpenBracket),
                              LAMBDA n : ~MatchesSupplyDemand(n.text))
        supplies == SelectSeq(initNode.children,
                              LAMBDA n : /\ n.type = "OpenBracketOperator"
                                         /\ MatchesSupplyDemand(n.text))
    IN  [inits |-> Defined([i \in 1..Len(brackets) |-> parseInit(brackets[i])]),
         supplyDemands |-> Defined([i \in 1..Len(supplies) |-> parseSupplyDemand(supplies[i])])]

\* The text of a document as the parser's pattern reads it: the tokens of its
\* syntax tree in their order, white space and comments included.
RECURSIVE TokensOf(_)
TokensOf(node) ==
    (IF node.type = "Document" THEN <<>> ELSE <<[type |-> node.type, text |-> node.text]>>)
        \o Flatten([i \in 1..Len(node.children) |-> TokensOf(node.children[i])])
        \o (IF isOpenBracket(node) THEN <<[type |-> "CloseBracket", text |-> ")"]>> ELSE <<>>)

\* stripComments: the text without its comments
stripComments(fileText) == SelectSeq(fileText, LAMBDA t : t.type # "Comment")

\* problemPattern, /^\s*\(define\s*\(problem\s+(\S+)\s*\)\s*\(:domain\s+(\S+)\s*\)/gi,
\* on a text that keeps its white space: the parts of the pattern in their order
problemRegExp ==
    <<"\\s*", "(define", "\\s*", "(problem", "\\s+", "\\S+", "\\s*", ")",
      "\\s*", "(:domain", "\\s+", "\\S+", "\\s*", ")">>

\* Whether a token is of the class \s or \S
InClass(token, class) ==
    IF class = "\\S+" THEN token.type # "Whitespace" ELSE token.type = "Whitespace"

\* The number of tokens of the class that follow one another from a position on
RECURSIVE Run(_, _, _)
Run(text, pos, class) ==
    IF pos <= Len(text) /\ InClass(text[pos], class) THEN 1 + Run(text, pos + 1, class)
    ELSE 0

\* The match of the parts of a pattern from the k-th on at a position of the text:
\* a quantified class takes as many tokens as it can and gives them back one by
\* one until the rest of the pattern matches; a keyword matches in any case (/i).
RECURSIVE Match(_, _, _, _, _)
RECURSIVE GiveBack(_, _, _, _, _, _)
Match(pattern, k, text, pos, captures) ==
    IF k > Len(pattern) THEN Some([lastIndex |-> pos - 1, captures |-> captures])
    ELSE IF pattern[k] \in {"\\s*", "\\s+", "\\S+"}
    THEN GiveBack(pattern, k, text, pos, captures, Run(text, pos, pattern[k]))
    ELSE IF pos <= Len(text) /\ ToLowerCase(text[pos].text) = pattern[k]
    THEN Match(pattern, k + 1, text, pos + 1, captures)
    ELSE None

GiveBack(pattern, k, text, pos, captures, taken) ==
    IF taken < (IF pattern[k] = "\\s*" THEN 0 ELSE 1) THEN None
    ELSE LET rest == Match(pattern, k + 1, text, pos + taken,
                           IF pattern[k] = "\\S+"
                           THEN Append(captures,
                                    Concat([i \in 1..taken |-> text[pos + i - 1].text]))
                           ELSE captures)
         IN  IF rest # None THEN rest
             ELSE GiveBack(pattern, k, text, pos, captures, taken - 1)

\* RegExp.exec of a pattern with the g flag that is anchored by ^: the search
\* starts at lastIndex and the pattern can match at the start of the text only;
\* a match leaves lastIndex behind it, a failure leaves it 0.
exec(pattern, lastIndex, text) ==
    LET found == IF lastIndex = 0 THEN Match(pattern, 1, text, 1, <<>>) ELSE None
    IN  IF found # None
        THEN [lastIndex |-> found[1].lastIndex, matchGroups |-> Some(found[1].captures)]
        ELSE [lastIndex |-> 0, matchGroups |-> None]

\* new ProblemInfo(fileUri, fileVersion, problemName, domainName, syntaxTree)
ProblemInfo(fileUri, fileVersion, problemName, domainName, syntaxTree) ==
    [fileUri |-> fileUri, version |-> fileVersion, name |-> problemName,
     domainName |-> domainName, syntaxTree |-> syntaxTree, text |-> <<>>,
     requirements |-> <<>>, objects |-> {}, inits |-> <<>>, supplyDemands |-> <<>>,
     constraints |-> <<>>, parsingProblems |-> <<>>]

\* PddlSyntaxTree.EMPTY
EmptyTree == SyntaxNode("Document", "", <<>>)

\* The texts of the tokens of a section that are neither white space nor comments
NonCommentTexts(node) ==
    [i \in 1..Len(NonCommentTokens(node)) |-> getText(NonCommentTokens(node)[i])]

\* PddlDomainParser.parseRequirements: the requirements the define node lists
parseRequirements(defineNode) ==
    IF getFirstOpenBracket(defineNode, ":requirements") = None THEN <<>>
    ELSE NonCommentTexts(getFirstOpenBracket(defineNode, ":requirements")[1])

\* PddlInheritanceParser: the names before a dash are of the type that follows
\* it, the names that no dash follows are of the default type
RECURSIVE parseInheritance(_, _, _)
parseInheritance(names, buffered, found) ==
    IF names = <<>> THEN found \cup {[name |-> n, type |-> "object"] : n \in buffered}
    ELSE IF Head(names) = "-" /\ Len(names) > 1
    THEN parseInheritance(Tail(Tail(names)), {},
                          found \cup {[name |-> n, type |-> names[2]] : n \in buffered})
    ELSE parseInheritance(Tail(names), buffered \cup {Head(names)}, found)

\* PddlConstraintsParser.parseConstraints: one constraint per bracket of the section
parseConstraints(constraintsNode) ==
    [i \in 1..Len(SelectSeq(constraintsNode.children, isOpenBracket)) |->
        getText(SelectSeq(constraintsNode.children, isOpenBracket)[i])]

\* getDefineNodeOrThrow finds the define node
HasDefineNode(syntaxTree) == getFirstOpenBracket(syntaxTree, "define") # None

\* getProblemStructure on a tree with a define node
getProblemStructure(problemInfo) ==
    LET defineNode == getFirstOpenBracket(problemInfo.syntaxTree, "define")[1]
        objectsNode == getFirstOpenBracket(defineNode, ":objects")
        initNode == getFirstOpenBracket(defineNode, ":init")
        constraintsNode == getFirstOpenBracket(defineNode, ":constraints")
        info1 == [problemInfo EXCEPT !.requirements = parseRequirements(defineNode)]
        info2 == IF objectsNode # None
                 THEN [info1 EXCEPT !.objects =
                          parseInheritance(NonCommentTexts(objectsNode[1]), {}, {})]
                 ELSE info1
        parsed == parseInitSection(initNode[1])
        info3 == IF initNode # None
                 THEN [info2 EXCEPT !.inits = parsed.inits,
                                    !.supplyDemands = parsed.supplyDemands]
                 ELSE info2
    IN  IF constraintsNode # None
        THEN [info3 EXCEPT !.constraints = parseConstraints(constraintsNode[1])]
        ELSE info3

\* What the pre-processor makes of a text: an error, or the text it returns
Processed(fileText) == [error |-> FALSE, fileText |-> fileText]

\* An error that is no PreProcessingError, thrown while pre-processing
ProcessingError ==
    [error |-> TRUE, fileText |-> <<>>, instance |-> "Error", message |-> "spawn ENOENT",
     line |-> 0, column |-> 0]

\* new PreProcessingError(message, line, column), thrown while pre-processing
PreProcessingError ==
    [error |-> TRUE, fileText |-> <<>>, instance |-> "PreProcessingError",
     message |-> "unresolved include", line |-> 2, column |-> 3]

\* parse from the pattern match on: the names the pattern captures make the
\* ProblemInfo, and a text the pattern does not match is not a problem
parseText(parser, fileUri, fileVersion, fileText, syntaxTree) ==
    LET found == exec(problemRegExp, parser.lastIndex, stripComments(fileText))
    IN  IF found.matchGroups = None
        THEN [parser |-> [parser EXCEPT !.lastIndex = found.lastIndex],
              threw |-> FALSE, returned |-> None]
        ELSE IF ~HasDefineNode(syntaxTree)
        THEN [parser |-> [parser EXCEPT !.lastIndex = found.lastIndex],
              threw |-> TRUE, returned |-> None]
        ELSE [parser |-> [parser EXCEPT !.lastIndex = found.lastIndex],
              threw |-> FALSE,
              returned |-> Some(getProblemStructure(
                  [ProblemInfo(fileUri, fileVersion, found.matchGroups[1][1],
                               found.matchGroups[1][2], syntaxTree)
                      EXCEPT !.text = fileText]))]

\* A variant of FailedProblemInfo that reports every error at the start of the text
FailedProblemInfoAtStart(fileUri, fileVersion, fileText, ex) ==
    [ProblemInfo(fileUri, fileVersion, "unknown", "unknown", EmptyTree)
        EXCEPT !.text = fileText,
               !.parsingProblems = @ \o <<ParsingProblem(ex.message, 0, 0)>>]

\* The ProblemInfo that parse returns when pre-processing fails with ex: it
\* carries the text parse was called with, and one parsing problem, at the
\* position a PreProcessingError states or else in column 0 of the line of the
\* meta data (offset 0 here)
FailedProblemInfo(fileUri, fileVersion, fileText, ex) ==
    [ProblemInfo(fileUri, fileVersion, "unknown", "unknown", EmptyTree)
        EXCEPT !.text = fileText,
               !.parsingProblems = @ \o
                   IF ex.instance = "PreProcessingError"
                   THEN <<ParsingProblem(ex.message, ex.line, ex.column)>>
                   ELSE <<ParsingProblem(ex.message, 0, 0)>>]

\* A variant of parse that searches from where the last match ended
parseFromLastIndex(parser, fileUri, fileVersion, fileText, syntaxTree, processed) ==
    IF parser.problemPreParser /\ processed.error
    THEN [parser |-> parser, threw |-> FALSE,
          returned |-> Some(FailedProblemInfo(fileUri, fileVersion, fileText, processed))]
    ELSE parseText(parser, fileUri, fileVersion,
                   IF parser.problemPreParser THEN processed.fileText ELSE fileText,
                   syntaxTree)

\* PddlProblemParser.parse: the parser it leaves, whether it threw and the value
\* it returned.  processed is what the pre-processor makes of the text, for a
\* parser that has one.
parse(parser, fileUri, fileVersion, fileText, syntaxTree, processed) ==
    IF parser.problemPreParser /\ processed.error
    THEN [parser |-> parser, threw |-> FALSE,
          returned |-> Some(FailedProblemInfo(fileUri, fileVersion, fileText, processed))]
    ELSE parseText([parser EXCEPT !.lastIndex = 0], fileUri, fileVersion,
                   IF parser.problemPreParser THEN processed.fileText ELSE fileText,
                   syntaxTree)

VARIABLES
    parser,     \* a PddlProblemParser: whether it has a pre-processor (problemPreParser)
                \* and the lastIndex of its problemPattern
    called      \* the last call of a method of the parser: its arguments and its result

parserVars == <<parser, called>>

\* new PddlProblemParser(context)
NewParser(context) == [problemPreParser |-> context, lastIndex |-> 0]

\* No call yet, and the node the call is going to be made with
NoCall(node) == [op |-> "none", node |-> node, result |-> None]

\* The brackets an :init section is parsed from.  (p a), (f), (p (f)), (at a b):
Predicate == Plain(<<Other("p"), Space, Other("a")>>)

Function == Plain(<<Other("f")>>)

Deep == Plain(<<Other("p"), Space, Function>>)

AtPredicate == Operator("(at", <<Space, Other("a"), Space, Other("b")>>)

\* (= (f) 5), (= ; c (f) 12), (= 5 (f)), (= (f)), (= (at a b) 5), (= (f) (f))
Assignments ==
    {Operator("(=", <<Space, Function, Space, Other("5")>>),
     Operator("(=", <<Space, Comment, Space, Function, Space, Other("12")>>),
     Operator("(=", <<Space, Other("5"), Space, Function>>),
     Operator("(=", <<Space, Function>>),
     Operator("(=", <<Space, AtPredicate, Space, Other("5")>>),
     Operator("(=", <<Space, Function, Space, Function>>)}

UnsupportedHeads == {"(forall", "(assign", "(increase", "(decrease"}

\* (forall (f) (p a)), (assign (f) (p a)), ...
Unsupported == {Operator(head, <<Space, Function, Space, Predicate>>) : head \in UnsupportedHeads}

Simple == {Predicate, Function, Deep, AtPredicate} \cup Assignments \cup Unsupported

\* (not FACT) of each of those, (not), (not a) and (not (not (p a)))
Negations ==
    {Operator("(not", <<Space, fact>>) : fact \in Simple}
        \cup {Operator("(not", <<>>), Operator("(not", <<Space, Other("a")>>),
              Operator("(not", <<Space, Operator("(not", <<Space, Predicate>>)>>)}

Facts == Simple \cup Negations

\* The tokens in the place of a time: three numbers and two that are none
Times == {"0", "5", "12", "x", "5s"}

\* (at N FACT) of each time and fact, (at (f)), (at 5) and (at ; c 5 (p a))
Timed ==
    {Operator("(at", <<Space, Other(time), Space, fact>>) : time \in Times, fact \in Facts}
        \cup {Operator("(at", <<Space, Function>>), Operator("(at", <<Space, Other("5")>>),
              Operator("(at", <<Space, Comment, Space, Other("5"), Space, Predicate>>)}

\* (supply-demand sd (f)), (Supply-Demand SD), (supply-demand (f)),
\* (supply-demand) and (supply-demand ; c sd)
SupplyDemands ==
    {Operator("(supply-demand", <<Space, Other("sd"), Space, Function>>),
     Operator("(Supply-Demand", <<Space, Other("SD")>>),
     Operator("(supply-demand", <<Space, Function>>),
     Operator("(supply-demand", <<>>),
     Operator("(supply-demand", <<Space, Comment, Space, Other("sd")>>)}

Brackets == Facts \cup Timed \cup SupplyDemands

\* The children an :init section is made of: brackets of every shape and a token
InitChildren ==
    {Predicate, Deep, AtPredicate, Other("a"),
     Operator("(=", <<Space, Function, Space, Other("5")>>),
     Operator("(not", <<Space, Predicate>>),
     Operator("(at", <<Space, Function>>),
     Operator("(at", <<Space, Other("5"), Space, Predicate>>)}
        \cup Unsupported
        \cup {Operator("(at", <<Space, Other("5"), Space, fact>>) : fact \in Unsupported}
        \cup SupplyDemands

\* (:init), (:init A) and (:init A B) of those children
InitSections ==
    {Operator("(:init", <<>>)}
        \cup {Operator("(:init", <<Space, a>>) : a \in InitChildren}
        \cup {Operator("(:init", <<Space, a, Space, b>>) : a, b \in InitChildren}

\* The nodes the methods that parse the :init section are called with
InitNodes == Brackets \cup InitSections \cup {UndefinedNode, Other("a")}

\* A caller calls parseVariableValue with the node, or with undefined
ParseVariableValue ==
    /\ called.op = "none"
    /\ called.node.text # "(:init"
    /\ called' = [called EXCEPT !.op = "parseVariableValue",
                                !.result = parseVariableValue(called.node)]

\* A caller calls parseInit with the bracket
ParseInit ==
    /\ called.op = "none"
    /\ isOpenBracket(called.node)
    /\ called.node.text # "(:init"
    /\ called' = [called EXCEPT !.op = "parseInit", !.result = parseInit(called.node)]

\* A caller calls parseSupplyDemand with the bracket
ParseSupplyDemand ==
    /\ called.op = "none"
    /\ isOpenBracket(called.node)
    /\ called.node.text # "(:init"
    /\ called' = [called EXCEPT !.op = "parseSupplyDemand",
                                !.result = parseSupplyDemand(called.node)]

\* A caller calls parseInitSection with the :init bracket
ParseInitSection ==
    /\ called.op = "none"
    /\ called.node.text = "(:init"
    /\ called' = [called EXCEPT !.op = "parseInitSection",
                                !.result = parseInitSection(called.node)]

\* The syntax tree of a document
Document(children) == SyntaxNode("Document", "", children)

\* What comes before (define: nothing, white space, a comment and its line end
Leads == {<<>>, <<Space>>, <<Comment, Space>>}

DefineTexts == {"(define", "(DEFINE"}

\* (problem p), with white space before the close bracket, without a name, missing
ProblemParts ==
    {<<Space, Operator("(problem", <<Space, Other("p")>>)>>,
     <<Operator("(problem", <<Space, Other("p"), Space>>)>>,
     <<Space, Operator("(problem", <<Space>>)>>,
     <<>>}

\* (:domain d), in upper case, without white space before the name, missing
DomainParts ==
    {<<Space, Operator("(:domain", <<Space, Other("d")>>)>>,
     <<Operator("(:DOMAIN", <<Space, Other("d"), Space>>)>>,
     <<Space, Operator("(:domain", <<Other("d")>>)>>,
     <<>>}

ObjectsSection == Operator("(:objects", <<Space, Other("a"), Space, Other("-"), Space, Other("t")>>)

InitSection == Operator("(:init", <<Space, Predicate>>)

\* An :init section whose only fact holds a nested bracket
MalformedInitSection == Operator("(:init", <<Space, Deep>>)

ConstraintsSection == Operator("(:constraints", <<Space, Predicate>>)

\* The sections after the domain part: each of :objects, :init and :constraints
\* is there or missing; no section at all ends the text right after the domain
\* part
Sections ==
    {Flatten(<<objects, init, constraints>>) :
        objects \in {<<>>, <<Space, ObjectsSection>>},
        init \in {<<>>, <<Space, InitSection>>, <<Space, MalformedInitSection>>},
        constraints \in {<<>>, <<Space, ConstraintsSection>>}}

\* A document with a define bracket
DefineDocument(lead, define, children) == Document(lead \o <<Operator(define, children)>>)

StandardProblemPart == <<Space, Operator("(problem", <<Space, Other("p")>>)>>

StandardDomainPart == <<Space, Operator("(:domain", <<Space, Other("d")>>)>>

\* The documents whose lead and spelling of define vary, the documents whose
\* problem and domain parts vary, the documents whose sections vary, and a
\* document that holds no define bracket
Documents ==
    {DefineDocument(lead, define, StandardProblemPart \o StandardDomainPart
                                     \o <<Space, InitSection>>) :
        lead \in Leads, define \in DefineTexts}
    \cup {DefineDocument(<<>>, "(define", problemPart \o domainPart \o sections) :
              problemPart \in ProblemParts, domainPart \in DomainParts,
              sections \in {<<>>, <<Space, InitSection>>}}
    \cup {DefineDocument(<<>>, "(define", StandardProblemPart \o StandardDomainPart
                                             \o sections) :
              sections \in Sections}
    \cup {Document(<<Plain(<<Other("a")>>)>>)}

\* ------------------------------------------------- the undeclared variable

\* The operator brackets around a function
FunctionOperators ==
    {"(+", "(-", "(/", "(*", "(<", "(<=", "(>", "(>=", "(=", "(assign", "(increase",
     "(decrease", "(scale-up", "(scale-down", "(sumall"}

\* The operator brackets around a predicate
PredicateOperators == {"(and", "(not", "(or", "(at start", "(over all", "(at end", "(forall"}

\* A node of a syntax tree is named by its path: the index of each node on the
\* way from the document to it among the children of the one before
RECURSIVE NodeAt(_, _)
NodeAt(syntaxTree, path) ==
    IF path = <<>> THEN syntaxTree
    ELSE NodeAt(syntaxTree.children[Head(path)], Tail(path))

getParent(path) == SubSeq(path, 1, Len(path) - 1)

isDocument(syntaxTree, path) == NodeAt(syntaxTree, path).type = "Document"

\* The switch over the token text of an operator bracket
VariableTypeOf(node) ==
    IF node.type # "OpenBracketOperator" THEN "Undecided"
    ELSE IF node.text \in FunctionOperators THEN "Function"
    ELSE IF node.text \in PredicateOperators THEN "Predicate"
    ELSE "Undecided"

\* The loop of createEdit: up from the node while the type is undecided and the
\* node is not the document; steps counts the passes
RECURSIVE Decide(_, _, _, _)
Decide(syntaxTree, path, type, steps) ==
    IF type = "Undecided" /\ ~isDocument(syntaxTree, path)
    THEN Decide(syntaxTree, getParent(path),
                VariableTypeOf(NodeAt(syntaxTree, getParent(path))), steps + 1)
    ELSE [type |-> type, steps |-> steps]

\* What createEdit does once the type is decided: the variable goes into the
\* section of its type, or into a new section when the define node has none; a
\* tree without a define node gives no node to look the section up in
EditOf(syntaxTree, decided) ==
    LET newSectionName == IF decided.type = "Function" THEN ":functions" ELSE ":predicates"
        defineNode == getFirstOpenBracket(syntaxTree, "define")
    IN  IF decided.type = "Undecided" \/ defineNode = None
        THEN [threw |-> TRUE, edit |-> None, type |-> decided.type, steps |-> decided.steps]
        ELSE [threw |-> FALSE,
              edit |-> Some([section |-> newSectionName,
                             isNew |-> getFirstOpenBracket(defineNode[1], newSectionName) = None]),
              type |-> decided.type, steps |-> decided.steps]

\* A variant of createEdit that decides by the bracket right around the node
createEditByParent(syntaxTree, path) ==
    EditOf(syntaxTree,
           IF isDocument(syntaxTree, path) THEN [type |-> "Undecided", steps |-> 0]
           ELSE [type |-> VariableTypeOf(NodeAt(syntaxTree, getParent(path))), steps |-> 1])

\* UndeclaredVariable.createEdit for the node at the path: whether it threw,
\* the edit and the type it returned
createEdit(syntaxTree, path) == EditOf(syntaxTree, Decide(syntaxTree, path, "Undecided", 0))

\* The brackets around a use of a variable: every operator of the two sets,
\* operators of neither set, one of them in upper case, and a plain bracket
OtherOperators == {"(when", "(:init", "(at", "(AND"}

Heads ==
    {[type |-> "OpenBracketOperator", text |-> text] :
        text \in FunctionOperators \cup PredicateOperators \cup OtherOperators}
        \cup {[type |-> "OpenBracket", text |-> "("]}

\* Of three brackets around one another, each is one of these
FewHeads ==
    {[type |-> "OpenBracketOperator", text |-> text] : text \in {"(and", "(increase", "(when"}}

\* The brackets around the use, the outermost first
Nestings ==
    {<<>>} \cup {<<h>> : h \in Heads} \cup {<<h1, h2>> : h1, h2 \in Heads}
        \cup {<<h1, h2, h3>> : h1, h2, h3 \in FewHeads}

\* (f) within the brackets
RECURSIVE Nest(_)
Nest(heads) ==
    IF heads = <<>> THEN Function
    ELSE SyntaxNode(Head(heads).type, Head(heads).text, <<Space, Nest(Tail(heads))>>)

\* The path of (f) from the second child of a bracket on
RECURSIVE NestPath(_)
NestPath(heads) == IF heads = <<>> THEN <<>> ELSE <<2>> \o NestPath(Tail(heads))

FunctionsSection == Operator("(:functions", <<Space, Plain(<<Other("g")>>)>>)

\* The uses of an undeclared variable: the document, the path of the node.  The
\* use is within the define bracket, which has a :functions section or not, or
\* in a document without a define bracket, or the node is the document
Usages ==
    {[node |-> DefineDocument(<<>>, "(define", sections \o <<Space, Nest(heads)>>),
      path |-> <<1, Len(sections) + 2>> \o NestPath(heads)] :
        sections \in {<<>>, <<Space, FunctionsSection>>}, heads \in Nestings}
    \cup {[node |-> Document(<<Space, Nest(<<h>>)>>), path |-> <<2, 2>>] : h \in FewHeads}
    \cup {[node |-> DefineDocument(<<>>, "(define", <<Space, Nest(<<>>)>>), path |-> <<>>]}

\* A caller calls createEdit with the node of the use
CreateEdit ==
    /\ called.op = "none"
    /\ called' = [called EXCEPT !.op = "createEdit",
                                !.result = Some(createEdit(called.node, called.path))]
    /\ UNCHANGED parser

\* A text that a pre-processor renders whatever the document is
RenderedText ==
    TokensOf(DefineDocument(<<>>, "(define",
                            <<Space, Operator("(problem", <<Space, Other("q")>>)>>
                                \o StandardDomainPart \o <<Space, InitSection>>))

\* What the pre-processor of the parser can make of a text: the text itself,
\* another text, an error; a parser without a pre-processor leaves the text
Outcomes(fileText) ==
    IF parser.problemPreParser
    THEN {Processed(fileText), Processed(RenderedText), ProcessingError, PreProcessingError}
    ELSE {Processed(fileText)}

\* parse is called with the text and the syntax tree of a document; called keeps
\* the lastIndex the pattern had before the call and the outcome of the
\* pre-processing
Parse(syntaxTree, processed) ==
    LET done == parse(parser, ProblemUri, 0, TokensOf(syntaxTree), syntaxTree, processed)
    IN  /\ parser' = done.parser
        /\ called' = [op |-> "parse", node |-> syntaxTree, processed |-> processed,
                      lastIndex |-> parser.lastIndex, threw |-> done.threw,
                      result |-> done.returned]

\* ------------------------------------------------------------- observation

VARIABLES
    docs,           \* the documents the callers upsert (fixed by a specification's Init)
    observing,      \* the histories a specification records (fixed by its Init)
    updCount,       \* per URI and version: the UPDATED events emitted so far (2: two or more)
    insCount,       \* per URI: the INSERTED events emitted so far (2: two or more)
    removed,        \* per URI: whether removeFile has removed it
    parsedVer,      \* per URI: the version of the last parse that completed (-1: none)
    outstanding,    \* per URI: the last accepted update that no UPDATED had covered
                    \* before and none has followed yet (-1: none)
    quiet,          \* a timer pass has run and no upsert has been called since
    burst,          \* the updates taken since the last timer pass (2: two or more)
    owed,           \* the problems of the domains re-parsed since the last timer pass
    refused         \* removeFile has returned false for a URI of an explicit association

obsVars == <<docs, observing, updCount, insCount, removed, parsedVer, outstanding, quiet,
            burst, owed, refused>>

vars == <<coreVars, obsVars, parserVars>>

\* The URIs, languages and texts the calls are made with
AllUris == {DomainUri, ProblemUri, GitUri}

\* Those and the URIs of the files a workspace may hold from the start
EveryUri ==
    AllUris \cup {Domain2Uri, Problem2Uri, PlanUri, HappeningsUri, OtherDomainUri,
                  OtherProblemUri}

Doc(fileUri, language, text) == [fileUri |-> fileUri, language |-> language, text |-> text]

\* A domain in two versions of its text and a problem of that domain
Docs ==
    {Doc(DomainUri, "PDDL", DomainText), Doc(DomainUri, "PDDL", DomainText2),
     Doc(ProblemUri, "PDDL", ProblemText)}

\* A domain and a problem of that domain
PairDocs == {Doc(DomainUri, "PDDL", DomainText), Doc(ProblemUri, "PDDL", ProblemText)}

\* A problem and the "git" scheme's view of a domain
GitDocs == {Doc(GitUri, "PDDL", DomainText), Doc(ProblemUri, "PDDL", ProblemText)}

\* One URI with a text of each kind, and a text of no kind under the "git" scheme
KindDocs ==
    {Doc(ProblemUri, "PDDL", text) : text \in {DomainText, ProblemText, OtherText}}
        \cup {Doc(GitUri, "PDDL", OtherText)}

\* A problem in the language PDDL, and the same URI and a second one in a language
\* that is none of PDDL, PLAN and HAPPENINGS
LanguageDocs ==
    {Doc(ProblemUri, "PDDL", ProblemText), Doc(ProblemUri, "XML", ProblemText),
     Doc(DomainUri, "XML", DomainText)}

\* One URI with a text of each kind whose brackets do not balance
OffendingDocs ==
    {Doc(ProblemUri, "PDDL", text) :
        text \in {UnclosedDomainText, UnclosedProblemText, StrayCloseText}}

\* What a step ran: the method, the URI and version it was about, and a flag (the
\* force argument of an upsert, the value a removeFile returned)
Step(op, fileUri, version, flag) ==
    [op |-> op, fileUri |-> fileUri, version |-> version, flag |-> flag]

Count(events, symbol, fileUri, version) ==
    Cardinality({i \in 1..Len(events) :
                    /\ events[i].symbol = symbol
                    /\ events[i].fileUri = fileUri
                    /\ version \in {-1, events[i].version}})

Min(a, b) == IF a < b THEN a ELSE b

IsUpsert(step) == step.op \in {"upsertFile", "upsertAndParseFile"}

\* An update the version gate accepts: the URI is stored and the version is newer
Accepted(fileUri, version) ==
    /\ HasFileInfo(folders, fileUri)
    /\ version > getFileInfo(folders, fileUri).version

\* An update FileInfo.update takes: the gate accepts it or force overrides the gate
Taken(step) ==
    /\ HasFileInfo(folders, step.fileUri)
    /\ step.flag \/ Accepted(step.fileUri, step.version)

\* No UPDATED of the URI has carried this version or a later one
NotYetUpdated(fileUri, version) ==
    \A w \in Versions : w >= version => updCount[fileUri][w] = 0

Emitted(events, symbol, fileUri, version) ==
    \E i \in 1..Len(events) : events[i] = [symbol |-> symbol, fileUri |-> fileUri,
                                           version |-> version]

\* The URI occurs in an explicit association, on either side
InAssociation(fileUri) ==
    \/ \E k \in DOMAIN problemToDomainMap : fileUri \in {k, problemToDomainMap[k]}
    \/ \E k \in DOMAIN planToProblemMap : fileUri \in {k, planToProblemMap[k]}

Observe(step) ==
    /\ UNCHANGED <<docs, observing>>
    /\ IF "updCount" \in observing
       THEN updCount' = [u \in AllUris |-> [v \in Versions |->
                            Min(2, updCount[u][v] + Count(emitted', "UPDATED", u, v))]]
       ELSE UNCHANGED updCount
    /\ IF "insCount" \in observing
       THEN insCount' = [u \in AllUris |->
                            Min(2, insCount[u] + Count(emitted', "INSERTED", u, -1))]
       ELSE UNCHANGED insCount
    /\ IF {"insCount", "removed"} \cap observing # {}
       THEN removed' = [u \in EveryUri |->
                           \/ removed[u]
                           \/ step.op = "removeFile" /\ step.fileUri = u /\ step.flag]
       ELSE UNCHANGED removed
    /\ IF "parsedVer" \in observing
       THEN parsedVer' = [u \in AllUris |->
                             IF step.op \in {"insertFileResume", "reParseFileResume"}
                                /\ step.fileUri = u
                             THEN step.version ELSE parsedVer[u]]
       ELSE UNCHANGED parsedVer
    /\ IF "outstanding" \in observing
       THEN outstanding' = [u \in AllUris |->
                               IF step.op = "removeFile" /\ step.fileUri = u /\ step.flag
                               THEN -1
                               ELSE IF IsUpsert(step) /\ step.fileUri = u
                                       /\ Accepted(u, step.version)
                                       /\ NotYetUpdated(u, step.version)
                               THEN step.version
                               ELSE IF \E i \in 1..Len(emitted') :
                                          /\ emitted'[i].symbol = "UPDATED"
                                          /\ emitted'[i].fileUri = u
                                          /\ emitted'[i].version >= outstanding[u]
                               THEN -1
                               ELSE outstanding[u]]
       ELSE UNCHANGED outstanding
    /\ IF "quiet" \in observing
       THEN quiet' = IF step.op = "timer" THEN TRUE
                     ELSE IF IsUpsert(step) THEN FALSE
                     ELSE quiet
       ELSE UNCHANGED quiet
    /\ IF "burst" \in observing
       THEN burst' = IF step.op = "timer" THEN 0
                     ELSE IF IsUpsert(step) /\ Taken(step) THEN Min(2, burst + 1)
                     ELSE burst
       ELSE UNCHANGED burst
    /\ IF "owed" \in observing
       THEN owed' = IF step.op = "timer" THEN {}
                    ELSE IF /\ step.op = "reParseFileResume"
                            /\ HasFileInfo(folders', step.fileUri)
                            /\ getFileInfo(folders', step.fileUri).kind = "Domain"
                    THEN owed \cup
                         {f.fileUri : f \in
                             {getProblemFiles(folders', getFileInfo(folders', step.fileUri))[i] :
                                 i \in 1..Len(getProblemFiles(folders',
                                                getFileInfo(folders', step.fileUri)))}}
                    ELSE owed
       ELSE UNCHANGED owed
    /\ IF "refused" \in observing
       THEN refused' = \/ refused
                       \/ /\ step.op = "removeFile"
                          /\ ~step.flag
                          /\ InAssociation(step.fileUri)
       ELSE UNCHANGED refused

\* --------------------------------------------------------------- the steps

Apply(ws) ==
    /\ folders' = ws.folders
    /\ parsingTimeout' = ws.parsingTimeout
    /\ timers' = ws.timers
    /\ lastVersionUpdateEmitted' = ws.lastVersionUpdateEmitted
    /\ problemToDomainMap' = ws.problemToDomainMap
    /\ planToProblemMap' = ws.planToProblemMap
    /\ tasks' = ws.tasks
    /\ microtasks' = ws.microtasks
    /\ emitted' = ws.events
    /\ thrown' = ws.thrown
    /\ UNCHANGED parserVars

\* Room for one more timer handle and for n more awaited parses
CanSchedule == TimerIds \ timers # {}

Room(n) == BagCardinality(tasks) + Len(microtasks) + n <= MaxTasks

\* The awaited parses whose continuation may run next: any parse that awaits the
\* problem parser, and the microtask at the head of the queue
Ready == BagToSet(tasks) \cup (IF microtasks = <<>> THEN {} ELSE {Head(microtasks)})

Awaited == BagToSet(tasks) \cup {microtasks[i] : i \in 1..Len(microtasks)}

NoUri == [scheme |-> "", dir |-> "", base |-> ""]

\* The workspace after construction
NewWorkspace ==
    [folders |-> <<>>, parsingTimeout |-> 0, timers |-> {},
     lastVersionUpdateEmitted |-> <<>>, problemToDomainMap |-> <<>>,
     planToProblemMap |-> <<>>, tasks |-> EmptyBag, microtasks |-> <<>>, events |-> <<>>,
     thrown |-> <<>>]

\* The workspace is ws, nothing has been emitted or observed yet
InitCore(ws) ==
    /\ folders = ws.folders
    /\ parsingTimeout = ws.parsingTimeout
    /\ timers = ws.timers
    /\ lastVersionUpdateEmitted = ws.lastVersionUpdateEmitted
    /\ problemToDomainMap = ws.problemToDomainMap
    /\ planToProblemMap = ws.planToProblemMap
    /\ tasks = ws.tasks
    /\ microtasks = ws.microtasks
    /\ emitted = <<>>
    /\ thrown = <<>>
    /\ updCount = [u \in AllUris |-> [v \in Versions |-> 0]]
    /\ insCount = [u \in AllUris |-> 0]
    /\ removed = [u \in EveryUri |-> FALSE]
    /\ parsedVer = [u \in AllUris |-> -1]
    /\ outstanding = [u \in AllUris |-> -1]
    /\ quiet = FALSE
    /\ burst = 0
    /\ owed = {}
    /\ refused = FALSE

\* The same, with a problem parser that nobody calls directly
InitFrom(ws) == InitCore(ws) /\ parser = NewParser(FALSE) /\ called = NoCall(UndefinedNode)

InitWorkspace == InitFrom(NewWorkspace)

\* The workspace after upsertFile has inserted doc and its parse has completed
Inserted(ws, doc, version) ==
    [insertFileResume(upsertFile(ws, doc.fileUri, doc.language, version, doc.text, FALSE),
                      Task("insert", doc.fileUri, doc.language, version, doc.text))
        EXCEPT !.events = <<>>]

\* The workspace after upsertFile has updated the stored doc
Updated(ws, doc, version) ==
    upsertFile(ws, doc.fileUri, doc.language, version, doc.text, FALSE)

Init == InitWorkspace /\ docs = Docs /\ observing = {"quiet"}

InitEvents == InitWorkspace /\ docs = Docs /\ observing = {"updCount"}

InitInserted == InitWorkspace /\ docs = PairDocs /\ observing = {"insCount"}

InitParsed == InitWorkspace /\ docs = PairDocs /\ observing = {"parsedVer", "updCount"}

InitAccepted == InitWorkspace /\ docs = PairDocs /\ observing = {"outstanding", "updCount"}

InitBurst == InitWorkspace /\ docs = PairDocs /\ observing = {"burst"}

\* A folder with a problem, its plan (edited since) and its happenings, and
\* another folder with a problem of the same domain name (edited since): the
\* workspace after the upsertFile calls that make them
InitCascade ==
    \E ws1 \in {Inserted(NewWorkspace, Doc(ProblemUri, "PDDL", ProblemText), 0)} :
    \E ws2 \in {Inserted(ws1, Doc(PlanUri, "PLAN", PlanText), 0)} :
    \E ws3 \in {Inserted(ws2, Doc(HappeningsUri, "HAPPENINGS", HappeningsText), 0)} :
    \E ws4 \in {Inserted(ws3, Doc(OtherProblemUri, "PDDL", ProblemText), 0)} :
    \E ws5 \in {Updated(ws4, Doc(PlanUri, "PLAN", PlanText), 1)} :
    \E ws6 \in {Updated(ws5, Doc(OtherProblemUri, "PDDL", ProblemText), 1)} :
        InitFrom(ws6) /\ docs = PairDocs /\ observing = {}

InitOwed == InitWorkspace /\ docs = PairDocs /\ observing = {"owed"}

\* The URIs of the files that workspace holds
LinkUris ==
    {DomainUri, Domain2Uri, ProblemUri, Problem2Uri, PlanUri, HappeningsUri, OtherDomainUri}

\* A folder with two domains whose names differ in case only, two problems of
\* that domain name, a plan and a happenings file of the first problem, and
\* another folder with a domain of the same name: the workspace after the
\* upsertFile calls that make them
InitLinks ==
    \E ws1 \in {Inserted(NewWorkspace, Doc(DomainUri, "PDDL", DomainText), 0)} :
    \E ws2 \in {Inserted(ws1, Doc(Domain2Uri, "PDDL", DomainTextLower), 0)} :
    \E ws3 \in {Inserted(ws2, Doc(ProblemUri, "PDDL", ProblemText), 0)} :
    \E ws4 \in {Inserted(ws3, Doc(Problem2Uri, "PDDL", Problem2Text), 0)} :
    \E ws5 \in {Inserted(ws4, Doc(PlanUri, "PLAN", PlanText), 0)} :
    \E ws6 \in {Inserted(ws5, Doc(HappeningsUri, "HAPPENINGS", HappeningsText), 0)} :
    \E ws7 \in {Inserted(ws6, Doc(OtherDomainUri, "PDDL", DomainText), 0)} :
        InitFrom(ws7) /\ docs = {} /\ observing = {}

\* A folder with two domains, a problem and its plan
InitKept ==
    \E ws1 \in {Inserted(NewWorkspace, Doc(DomainUri, "PDDL", DomainText), 0)} :
    \E ws2 \in {Inserted(ws1, Doc(Domain2Uri, "PDDL", DomainTextLower), 0)} :
    \E ws3 \in {Inserted(ws2, Doc(ProblemUri, "PDDL", ProblemText), 0)} :
    \E ws4 \in {Inserted(ws3, Doc(PlanUri, "PLAN", PlanText), 0)} :
        InitFrom(ws4) /\ docs = {} /\ observing = {"removed", "refused"}

InitKinds == InitWorkspace /\ docs = KindDocs /\ observing = {}

InitGit == InitWorkspace /\ docs = GitDocs /\ observing = {}

InitOffending == InitWorkspace /\ docs = OffendingDocs /\ observing = {}

\* A problem parser, with or without a pre-processor, and nothing to observe
\* One URI with the text of a problem in two versions
EditDocs == {Doc(ProblemUri, "PDDL", ProblemText), Doc(ProblemUri, "PDDL", Problem2Text)}

\* A problem whose insertion has completed, and the callers edit that problem
InitLanguages == InitWorkspace /\ docs = LanguageDocs /\ observing = {}

InitEdits ==
    \E ws1 \in {Inserted(NewWorkspace, Doc(ProblemUri, "PDDL", ProblemText), 0)} :
        InitFrom(ws1) /\ docs = EditDocs /\ observing = {}

InitParser ==
    /\ InitCore(NewWorkspace)
    /\ docs = {}
    /\ observing = {}
    /\ \E context \in BOOLEAN : parser = NewParser(context)
    /\ called = NoCall(UndefinedNode)

\* A problem parser and a node for one of its methods that parse the :init section
InitInitSection ==
    /\ InitCore(NewWorkspace)
    /\ docs = {}
    /\ observing = {}
    /\ parser = NewParser(FALSE)
    /\ \E node \in InitNodes : called = NoCall(node)

\* An UndeclaredVariable over the syntax tree of a document, and the node of a use
InitUndeclared ==
    /\ InitCore(NewWorkspace)
    /\ docs = {}
    /\ observing = {}
    /\ parser = NewParser(FALSE)
    /\ \E usage \in Usages :
           called = [op |-> "none", node |-> usage.node, path |-> usage.path, result |-> None]

\* A caller calls upsertFile: it runs to its end, or to the await of insertFile
UpsertFile(doc, version, force) ==
    /\ CanSchedule
    /\ Room(1)
    /\ Apply(upsertFile(WS, doc.fileUri, doc.language, version, doc.text, force))
    /\ Observe(Step("upsertFile", doc.fileUri, version, force))

\* A caller calls upsertAndParseFile: it runs to the await of reParseFile or insertFile
UpsertAndParseFile(doc, version) ==
    /\ CanSchedule
    /\ Room(1)
    /\ Apply(upsertAndParseFile(WS, doc.fileUri, doc.language, version, doc.text))
    /\ Observe(Step("upsertAndParseFile", doc.fileUri, version, FALSE))

\* The parse that an insertFile awaits resolves
InsertFileResume(task) ==
    /\ task.kind = "insert"
    /\ Apply(insertFileResume(WS, task))
    /\ Observe(Step("insertFileResume", task.fileUri, task.version, TRUE))

\* The parse that a reParseFile awaits resolves
ReParseFileResume(task) ==
    /\ task.kind = "reparse"
    /\ Apply(reParseFileResume(WS, task))
    /\ Observe(Step("reParseFileResume", task.fileUri, task.version, TRUE))

\* A pending timer fires, once the microtasks have run: it leaves the runtime's
\* table and runs parseAllDirty
TimerFires(h) ==
    /\ microtasks = <<>>
    /\ Room(Len(getAllFilesIf(folders, "Dirty")))
    /\ Apply(parseAllDirty([WS EXCEPT !.timers = @ \ {h}]))
    /\ Observe(Step("timer", NoUri, 0, TRUE))

\* A caller calls removeFile
RemoveFile(fileUri, removeAllReferences) ==
    /\ Apply(removeFile(WS, fileUri, removeAllReferences).ws)
    /\ Observe(Step("removeFile", fileUri, 0,
                    removeFile(WS, fileUri, removeAllReferences).result))

\* A caller calls associateProblemToDomain with two files of the workspace
AssociateProblemToDomain(problemInfo, domainInfo) ==
    /\ problemInfo.kind = "Problem"
    /\ domainInfo.kind = "Domain"
    /\ Apply(associateProblemToDomain(WS, problemInfo, domainInfo))
    /\ Observe(Step("associateProblemToDomain", problemInfo.fileUri, 0, TRUE))

\* A caller calls associatePlanToProblem with the URI of a plan or a happenings
\* file and a problem of the workspace
AssociatePlanToProblem(planUri, problemFileInfo) ==
    /\ HasFileInfo(folders, planUri)
    /\ getFileInfo(folders, planUri).kind \in {"Plan", "Happenings"}
    /\ problemFileInfo.kind = "Problem"
    /\ Apply(associatePlanToProblem(WS, planUri, problemFileInfo))
    /\ Observe(Step("associatePlanToProblem", planUri, 0, TRUE))

Next ==
    \/ \E doc \in docs, version \in Versions, force \in BOOLEAN :
           UpsertFile(doc, version, force)
    \/ \E doc \in docs, version \in Versions : UpsertAndParseFile(doc, version)
    \/ \E task \in Ready : InsertFileResume(task)
    \/ \E task \in Ready : ReParseFileResume(task)
    \/ \E h \in timers : TimerFires(h)
    \/ \E fileUri \in {doc.fileUri : doc \in docs}, removeAllReferences \in BOOLEAN :
           RemoveFile(fileUri, removeAllReferences)

\* The calls that edit files without force and remove none, and the steps that
\* follow them
NextEdits ==
    \/ \E doc \in docs, version \in Versions : UpsertFile(doc, version, FALSE)
    \/ \E doc \in docs, version \in Versions : UpsertAndParseFile(doc, version)
    \/ \E task \in Ready : InsertFileResume(task)
    \/ \E task \in Ready : ReParseFileResume(task)
    \/ \E h \in timers : TimerFires(h)

\* The calls on a workspace that is not edited: associations and removals
NextLinks ==
    \/ \E i, j \in 1..Len(getAllFiles(folders)) :
           AssociateProblemToDomain(getAllFiles(folders)[i], getAllFiles(folders)[j])
    \/ \E planUri \in LinkUris, i \in 1..Len(getAllFiles(folders)) :
           AssociatePlanToProblem(planUri, getAllFiles(folders)[i])
    \/ \E fileUri \in LinkUris, removeAllReferences \in BOOLEAN :
           RemoveFile(fileUri, removeAllReferences)

\* The calls of the methods of the problem parser that parse the :init section
NextInit ==
    \/ ParseVariableValue /\ UNCHANGED <<coreVars, obsVars, parser>>
    \/ ParseInit /\ UNCHANGED <<coreVars, obsVars, parser>>
    \/ ParseSupplyDemand /\ UNCHANGED <<coreVars, obsVars, parser>>
    \/ ParseInitSection /\ UNCHANGED <<coreVars, obsVars, parser>>

NextParser ==
    \E syntaxTree \in Documents :
        \E processed \in Outcomes(TokensOf(syntaxTree)) :
            Parse(syntaxTree, processed) /\ UNCHANGED <<coreVars, obsVars>>

NextUndeclared == CreateEdit /\ UNCHANGED <<coreVars, obsVars>>

Spec == Init /\ [][Next]_vars

SpecEvents == InitEvents /\ [][Next]_vars

SpecInserted == InitInserted /\ [][Next]_vars

SpecParsed == InitParsed /\ [][Next]_vars

SpecAccepted == InitAccepted /\ [][Next]_vars

SpecBurst == InitBurst /\ [][Next]_vars

SpecCascade == InitCascade /\ [][Next]_vars

SpecOwed == InitOwed /\ [][Next]_vars

SpecLinks == InitLinks /\ [][NextLinks]_vars

SpecKept == InitKept /\ [][NextLinks]_vars

SpecKinds == InitKinds /\ [][Next]_vars

SpecGit == InitGit /\ [][Next]_vars

SpecOffending == InitOffending /\ [][Next]_vars

SpecInitSection == InitInitSection /\ [][NextInit]_vars

SpecParser == InitParser /\ [][NextParser]_vars

SpecEdits == InitEdits /\ [][NextEdits]_vars

SpecLanguages == InitLanguages /\ [][Next]_vars

SpecUndeclared == InitUndeclared /\ [][NextUndeclared]_vars

\* ------------------------------------------------------------------ claims

Stored(fileUri) == HasFileInfo(folders, fileUri)

File(fileUri) == getFileInfo(folders, fileUri)

\* C1: no two UPDATED events carry the same URI and the same version, whatever
\* the interleaving of upserts, timer passes, cascades and removals.
UpdatedNeverTwice == \A u \in AllUris, v \in Versions : updCount[u][v] <= 1

\* An insertion completed at a version whose UPDATED had been emitted before:
\* its INSERTED went out, its UPDATED was dropped.
UpdatedSuppressedReached ==
    \E u \in AllUris :
        /\ Stored(u)
        /\ updCount[u][File(u).version] = 1
        /\ emitted = <<[symbol |-> "INSERTED", fileUri |-> u, version |-> File(u).version]>>

\* C2 as stated: a parse of a URI at version N+1 that follows a parse of it at
\* version N emits UPDATED for N+1.
NextVersionEmitsUpdated ==
    [][\A task \in Ready :
          /\ InsertFileResume(task) \/ ReParseFileResume(task)
          /\ parsedVer[task.fileUri] = task.version - 1
          => Emitted(emitted', "UPDATED", task.fileUri, task.version)]_vars

\* C2 as amended: a parse of a URI at version N+1 that follows a parse of it at
\* version N emits UPDATED for N+1 exactly when no UPDATED of that URI has
\* carried version N+1 or a later one before.
NextVersionEmitsUpdatedIfNew ==
    [][\A task \in Ready :
          /\ InsertFileResume(task) \/ ReParseFileResume(task)
          /\ parsedVer[task.fileUri] = task.version - 1
          => (Emitted(emitted', "UPDATED", task.fileUri, task.version)
                 <=> NotYetUpdated(task.fileUri, task.version))]_vars

\* A parse at version 1 has followed the emitted parse at version 0 and has
\* emitted its UPDATED.
NextVersionEmittedReached ==
    \E u \in AllUris :
        /\ parsedVer[u] = 1
        /\ updCount[u][0] = 1
        /\ Emitted(emitted, "UPDATED", u, 1)

\* C3: a URI that removeFile has not removed gets INSERTED at most once (and
\* has got it once it is stored).
InsertedOncePerUri ==
    \A u \in AllUris :
        /\ ~removed[u] /\ u.scheme # "git" => insCount[u] <= 1
        /\ Stored(u) => insCount[u] >= 1

\* C4: once no timer is pending and no parse is awaited, every accepted update of
\* a URI has been followed by an UPDATED of that URI with its version or a later
\* one (unless the URI was removed since, or an UPDATED with that version or a
\* later one had gone out before the update).
Quiescent == timers = {} /\ Awaited = {}

AcceptedUpdateGetsUpdated == Quiescent => \A u \in AllUris : outstanding[u] = -1

\* The status, version and text the stored file of a URI has in a folder list
StatusIn(fds, fileUri) == getFileInfo(fds, fileUri).status

VersionIn(fds, fileUri) == getFileInfo(fds, fileUri).version

TextIn(fds, fileUri) == getFileInfo(fds, fileUri).text

\* The step starts no parse and arms or clears no timer
NothingStarted == UNCHANGED <<tasks, microtasks, timers, parsingTimeout>>

\* The step arms a new timer and leaves no other pending
Rearmed == timers' = {parsingTimeout'} /\ parsingTimeout' \notin timers

\* C5: upsertFile on a stored URI is gated by version: a version that is not
\* greater, without force, changes neither the file nor the schedule; a greater
\* version gives the file the new text and version, makes it Dirty and schedules
\* a re-parse; force makes it Dirty and schedules a re-parse whatever the version.
UpsertGatedByVersion ==
    [][\A doc \in docs, version \in Versions, force \in BOOLEAN :
          UpsertFile(doc, version, force) /\ Stored(doc.fileUri)
          => /\ ~force /\ version <= File(doc.fileUri).version
                => UNCHANGED folders /\ NothingStarted
             /\ version > File(doc.fileUri).version
                => /\ HasFileInfo(folders', doc.fileUri)
                   /\ TextIn(folders', doc.fileUri) = doc.text
                   /\ VersionIn(folders', doc.fileUri) = version
                   /\ StatusIn(folders', doc.fileUri) = "Dirty"
                   /\ Rearmed
             /\ force
                => /\ HasFileInfo(folders', doc.fileUri)
                   /\ StatusIn(folders', doc.fileUri) = "Dirty"
                   /\ Rearmed]_vars

\* The domain took the second text at version 1 and waits Dirty for the timer
UpdateTakenReached ==
    /\ Stored(DomainUri)
    /\ File(DomainUri).text = DomainText2
    /\ File(DomainUri).version = 1
    /\ File(DomainUri).status = "Dirty"
    /\ timers = {parsingTimeout}

\* What upsertFile does to a URI the workspace has not stored, and on an
\* accepted update of one it has stored
InsertParsesUpdateDefers(uris) ==
    /\ \A doc \in docs, version \in Versions, force \in BOOLEAN :
          UpsertFile(doc, version, force) /\ doc.fileUri \in uris
          => IF Stored(doc.fileUri)
             THEN version > File(doc.fileUri).version
                  => /\ UNCHANGED <<tasks, microtasks>>
                     /\ StatusIn(folders', doc.fileUri) = "Dirty"
                     /\ timers' = {parsingTimeout'}
             ELSE /\ BagCardinality(tasks') + Len(microtasks')
                        = BagCardinality(tasks) + Len(microtasks) + 1
                  /\ UNCHANGED <<timers, parsingTimeout>>
    /\ \A task \in Ready :
          InsertFileResume(task) /\ task.fileUri \in uris
          => /\ HasFileInfo(folders', task.fileUri)
             /\ getFileInfo(folders', task.fileUri)
                    = parseFile(task.fileUri, task.language, task.version, task.text)
             /\ UNCHANGED <<timers, parsingTimeout>>

\* C6 as stated: upsertFile of a URI that is not stored parses the text before it
\* resolves, stores the parsed FileInfo and arms no timer; an accepted update of
\* a stored URI starts no parse, leaves the file Dirty and the timer armed.
UpsertInsertsOrDefers == [][InsertParsesUpdateDefers(AllUris)]_vars

\* C6 as amended: the same, of every URI whose scheme is not "git".
UpsertInsertsOrDefersNotGit ==
    [][InsertParsesUpdateDefers({u \in AllUris : u.scheme # "git"})]_vars

\* The problem was inserted at version 0 and then took an update: it waits
\* Dirty at version 1 with the timer armed and no parse running
InsertedThenDeferredReached ==
    /\ Stored(ProblemUri)
    /\ File(ProblemUri).version = 1
    /\ File(ProblemUri).status = "Dirty"
    /\ ProblemUri \in DOMAIN lastVersionUpdateEmitted
    /\ lastVersionUpdateEmitted[ProblemUri] = 0
    /\ timers # {}
    /\ Awaited = {}

\* C7: at most one re-parse timer is pending, the one parsingTimeout names: a
\* timer that scheduleParsing has replaced is cancelled and cannot fire.
OneTimerPending == Cardinality(timers) <= 1 /\ timers \subseteq {parsingTimeout}

\* A timer was armed while another was pending, and it alone is pending
TimerReplacedReached == timers = {2} /\ parsingTimeout = 2

\* C8: the updates of a burst, each taken before the timer of the one before it
\* has fired, leave exactly one timer pending, armed by the last of them; when it
\* fires the burst gets its one parseAllDirty pass and no timer stays pending.
BurstGetsOnePass ==
    [][/\ burst' >= 1 => Cardinality(timers') = 1 /\ timers' = {parsingTimeout'}
       /\ burst' > burst => parsingTimeout' \notin timers
       /\ \A h \in timers : TimerFires(h) => burst' = 0 /\ timers' = {}]_vars

\* Two updates were taken with no timer pass between them: the timer of the
\* first was replaced by the timer of the second
BurstReached == burst = 2 /\ timers = {2}

\* The Dirty files of a folder list
DirtyFiles(fds) == getAllFilesIf(fds, "Dirty")

\* The parses awaited for a re-parse of the URI
ReParsesAwaited(bag, queue, fileUri) ==
    LET IsOf(task) == task.kind = "reparse" /\ task.fileUri = fileUri
        waiting == {task \in BagToSet(bag) : IsOf(task)}
        Sum(f, S) == LET RECURSIVE Add(_)
                         Add(T) == IF T = {} THEN 0
                                   ELSE LET t == CHOOSE t \in T : TRUE
                                        IN  f[t] + Add(T \ {t})
                     IN  Add(S)
    IN  Sum([task \in waiting |-> CopiesIn(task, bag)], waiting)
            + Len(SelectSeq(queue, IsOf))

\* C9: a timer pass starts one re-parse of every file that is Dirty when it
\* runs, and of no other file; and when a pass has run, no update has been made
\* since and no parse is awaited, no file is Dirty.
PassReParsesEveryDirty ==
    [][/\ \A h \in timers : TimerFires(h)
          => \A u \in AllUris :
                ReParsesAwaited(tasks', microtasks', u)
                    = ReParsesAwaited(tasks, microtasks, u)
                          + (IF Stored(u) /\ File(u).status = "Dirty" THEN 1 ELSE 0)
       /\ quiet' /\ BagToSet(tasks') = {} /\ microtasks' = <<>>
          => DirtyFiles(folders') = <<>>]_vars

\* A pass has started the re-parses of two Dirty files and no update has been
\* made since
PassOfTwoReached ==
    /\ quiet
    /\ ReParsesAwaited(tasks, microtasks, DomainUri) = 1
    /\ ReParsesAwaited(tasks, microtasks, ProblemUri) = 1

\* C10: when the re-parse of a domain completes, every problem of its folder that
\* names the domain is Dirty, and so is every plan and happenings file of such a
\* problem.
DomainReParseDirtiesProblems ==
    [][\A task \in Ready :
          /\ ReParseFileResume(task)
          /\ parseFile(task.fileUri, task.language, task.version, task.text).kind = "Domain"
          => LET domainInfo == parseFile(task.fileUri, task.language, task.version, task.text)
                 problems == getProblemFiles(folders', domainInfo)
             IN  \A i \in 1..Len(problems) :
                    /\ problems[i].status = "Dirty"
                    /\ \A f \in {getPlanFiles(folders', problems[i])[j] :
                                    j \in 1..Len(getPlanFiles(folders', problems[i]))}
                             \cup {getHappeningsFiles(folders', problems[i])[j] :
                                    j \in 1..Len(getHappeningsFiles(folders', problems[i]))} :
                          f.status = "Dirty"]_vars

\* C11: the cascade that the insertion of a file runs leaves every other file in
\* its folder, with its text and its version, and changes no file of another
\* folder.
CascadeKeepsContent ==
    [][\A task \in Ready :
          InsertFileResume(task)
          => \A u \in EveryUri \ {task.fileUri} :
                /\ HasFileInfo(folders', u) <=> Stored(u)
                /\ Stored(u)
                   => /\ TextIn(folders', u) = File(u).text
                      /\ VersionIn(folders', u) = File(u).version
                      /\ u.dir # task.fileUri.dir => getFileInfo(folders', u) = File(u)]_vars

\* The insertion of the domain has run the cascade over the problem and over
\* its edited plan: the plan is Parsed and has the text and version of the edit
CascadeReached ==
    /\ \E v \in Versions : Emitted(emitted, "INSERTED", DomainUri, v)
    /\ Emitted(emitted, "UPDATED", PlanUri, 1)
    /\ Stored(PlanUri)
    /\ File(PlanUri).status = "Parsed"
    /\ File(PlanUri).text = PlanText
    /\ File(PlanUri).version = 1

\* C12: the timer pass that follows the re-parse of a domain starts a re-parse of
\* every stored problem of its folder that names the domain.
NextPassReParsesProblems ==
    [][\A h \in timers :
          TimerFires(h)
          => \A u \in owed :
                Stored(u) => ReParsesAwaited(tasks', microtasks', u)
                                 = ReParsesAwaited(tasks, microtasks, u) + 1]_vars

\* The files of a sequence, as a set
Range(infos) == {infos[i] : i \in 1..Len(infos)}

\* C13: a timer pass that finds a domain and a problem of it both Dirty does not
\* start the re-parse of the problem while the re-parse of the domain, which the
\* pass starts, is still awaited.
DomainReParsedBeforeDependents ==
    [][\A h \in timers :
          TimerFires(h)
          => \A d \in Range(DirtyFiles(folders)) :
                d.kind = "Domain"
                => \A p \in Range(DirtyFiles(folders)) \cap Range(getProblemFiles(folders, d)) :
                      ReParsesAwaited(tasks', microtasks', d.fileUri) = 0
                      \/ ReParsesAwaited(tasks', microtasks', p.fileUri)
                             = ReParsesAwaited(tasks, microtasks, p.fileUri)]_vars

\* The stored files of the given kinds
StoredOfKind(kinds) == {f \in Range(getAllFiles(folders)) : f.kind \in kinds}

\* The stored file of a URI, if any, as a set
StoredAt(fileUri) == {f \in Range(getAllFiles(folders)) : f.fileUri = fileUri}

\* The domains in the folder of a problem whose name is the domain name of the
\* problem, ignoring case
DomainsByName(problem) ==
    {f \in StoredOfKind({"Domain"}) :
        /\ f.fileUri.dir = problem.fileUri.dir
        /\ ToLowerCase(f.name) = ToLowerCase(problem.domainName)}

\* C14: getDomainFilesFor of a problem with an explicit association gives the
\* associated domain file and nothing else; without one it gives the domains of
\* the problem's folder whose name is the problem's domain name, ignoring case.
DomainFilesInTwoTiers ==
    \A problem \in StoredOfKind({"Problem"}) :
        Range(getDomainFilesFor(WS, problem))
            = IF problem.fileUri \in DOMAIN problemToDomainMap
              THEN StoredAt(problemToDomainMap[problem.fileUri])
              ELSE DomainsByName(problem)

\* The problem is associated with the domain of the other folder while two
\* domains of its own folder have the name it states
AssociationDecidesReached ==
    /\ Stored(ProblemUri)
    /\ ProblemUri \in DOMAIN problemToDomainMap
    /\ problemToDomainMap[ProblemUri] = OtherDomainUri
    /\ Stored(OtherDomainUri)
    /\ Cardinality(DomainsByName(File(ProblemUri))) = 2
    /\ getDomainFilesFor(WS, File(ProblemUri)) = <<File(OtherDomainUri)>>

\* The first problem in the folder of a plan or a happenings file whose name is
\* the problem name the file states, ignoring case
ProblemByName(info) ==
    LET named == SelectSeq(FilesOfFolder(folders, info.fileUri.dir),
                           LAMBDA f : /\ f.kind = "Problem"
                                      /\ ToLowerCase(f.name) = ToLowerCase(info.problemName))
    IN  IF named = <<>> THEN {} ELSE {Head(named)}

\* C15: getProblemFileForPlan and getProblemFileForHappenings give the problem
\* of the explicit association of the plan's or happenings file's URI when there
\* is one, and otherwise the problem of the folder with the name the file states.
ProblemFileInTwoTiers ==
    \A info \in StoredOfKind({"Plan", "Happenings"}) :
        Range(IF info.kind = "Plan" THEN getProblemFileForPlan(WS, info)
              ELSE getProblemFileForHappenings(WS, info))
            = IF info.fileUri \in DOMAIN planToProblemMap
              THEN StoredAt(planToProblemMap[info.fileUri])
              ELSE ProblemByName(info)

AssociatedFileIsKept ==
    [][\A fileUri \in EveryUri :
          InAssociation(fileUri) /\ RemoveFile(fileUri, FALSE)
          => /\ ~removeFile(WS, fileUri, FALSE).result
             /\ removed' = removed
             /\ emitted' = <<>>
             /\ UNCHANGED <<folders, problemToDomainMap, planToProblemMap>>]_vars

\* removeFile has refused to remove a file, and the first domain is stored and
\* is the domain of an association
RemovalRefusedReached ==
    /\ refused
    /\ Stored(DomainUri)
    /\ \E k \in DOMAIN problemToDomainMap : problemToDomainMap[k] = DomainUri

\* C18: no explicit association mentions a URI that removeFile has removed from
\* the workspace.
NoAssociationOfRemoved ==
    \A fileUri \in EveryUri :
        removed[fileUri] /\ ~Stored(fileUri) => ~InAssociation(fileUri)

\* C19: no folder stores a file whose URI has the scheme "git".
NoGitFileStored ==
    \A f \in Range(getAllFiles(folders)) : f.fileUri.scheme # "git"

\* The insertion of the "git" URI has completed and the URI is not stored
GitInsertDroppedReached ==
    /\ \E v \in Versions : Emitted(emitted, "INSERTED", GitUri, v)
    /\ ~Stored(GitUri)

\* The kind that trying domain extraction first and problem extraction second
\* gives a text
KindOf(text) ==
    IF tryDomain(text) THEN "Domain" ELSE IF tryProblem(text) THEN "Problem" ELSE "Unknown"

\* Every parse of a PDDL text of one of the URIs stores, under the URI of the
\* text, a file of the kind of the text with that text; an Unknown file has no
\* names
ParseClassifies(uris) ==
    \A task \in Ready :
        /\ InsertFileResume(task) \/ ReParseFileResume(task)
        /\ task.language = "PDDL"
        /\ task.fileUri \in uris
        => /\ HasFileInfo(folders', task.fileUri)
           /\ getFileInfo(folders', task.fileUri).kind = KindOf(task.text)
           /\ TextIn(folders', task.fileUri) = task.text
           /\ KindOf(task.text) = "Unknown"
              => /\ getFileInfo(folders', task.fileUri).name = Undefined
                 /\ getFileInfo(folders', task.fileUri).domainName = Undefined
                 /\ getFileInfo(folders', task.fileUri).problemName = Undefined

\* C20 as stated: every parse of a PDDL file makes it a Domain when domain
\* extraction succeeds, else a Problem when problem extraction succeeds, else an
\* Unknown file with the raw text, and the file is in the workspace under its URI.
ParsedFileIsClassified == [][ParseClassifies(AllUris)]_vars

\* C20 as amended: the same, of every URI whose scheme is not "git".
ParsedFileIsClassifiedNotGit ==
    [][ParseClassifies({u \in AllUris : u.scheme # "git"})]_vars

\* A re-parse at version 1 has made the file Unknown: it is stored with the text
\* that is neither a domain nor a problem
ReParsedUnknownReached ==
    /\ emitted = <<[symbol |-> "UPDATED", fileUri |-> ProblemUri, version |-> 1]>>
    /\ Stored(ProblemUri)
    /\ File(ProblemUri).kind = "Unknown"
    /\ File(ProblemUri).text = OtherText
    /\ File(ProblemUri).status = "Parsed"

\* The ParsingProblem that reports the offending token at a position of a text
ProblemOfToken(text, index) ==
    ParsingProblem("Unexpected token: " \o text[index], 0, index - 1)

\* C21: when the parse of a file with the PDDL language tag resolves, the file
\* it leaves in the folder carries a ParsingProblem for each offending token of
\* its syntax tree, at the token's line and column, whatever its kind.
OffendingTokensReported ==
    [][\A task \in Ready :
          /\ InsertFileResume(task) \/ ReParseFileResume(task)
          /\ task.language = "PDDL"
          /\ HasFileInfo(folders', task.fileUri)
          => \A i \in 1..Len(getOffendingTokens(task.text)) :
                 ProblemOfToken(task.text, getOffendingTokens(task.text)[i])
                     \in Range(getFileInfo(folders', task.fileUri).parsingProblems)]_vars

\* The FileInfos a folder list holds for a URI
InstancesIn(fds, fileUri) ==
    Cardinality({i \in 1..Len(FilesOfFolder(fds, getFolderPath(fileUri))) :
                    FilesOfFolder(fds, getFolderPath(fileUri))[i].fileUri = fileUri})

Meaningful(node) == SelectSeq(node.children, LAMBDA n : n.type \notin {"Whitespace", "Comment"})

\* A token that is a number
IsNumber(node) == node.type = "Other" /\ node.text \in {"0", "5", "12"}

\* A bracket of the form (at N FACT)
IsTimed(node) ==
    /\ node.text = "(at"
    /\ Len(Meaningful(node)) = 2
    /\ IsNumber(Meaningful(node)[1])
    /\ isOpenBracket(Meaningful(node)[2])

\* C24: parseInit gives a bracket of the form (at N FACT) the time N and the
\* variable and value that parseVariableValue finds in FACT, and gives a
\* bracket that is not headed by at the time 0.
TimedFactGetsItsTime ==
    called.op = "parseInit"
    => /\ IsTimed(called.node) /\ parseVariableValue(Meaningful(called.node)[2]) # None
          => /\ called.result # None
             /\ called.result[1].time = Meaningful(called.node)[1].text
             /\ called.result[1].variableName =
                    parseVariableValue(Meaningful(called.node)[2])[1].variableName
             /\ called.result[1].value =
                    parseVariableValue(Meaningful(called.node)[2])[1].value
       /\ called.node.text # "(at" /\ called.result # None
          => called.result[1].time = "0"

\* parseInit was called with (at 5 (p a)) and returned p a = true at time 5.
TimedFactReached ==
    /\ called.op = "parseInit"
    /\ called.node = Operator("(at", <<Space, Other("5"), Space, Predicate>>)
    /\ called.result = Some([time |-> "5", variableName |-> "p a", value |-> "true",
                             supported |-> TRUE])

\* C25: parseInit gives a bracket that is headed by at and has no number in the
\* place of the time, such as (at (f)), a fact at time 0.
AtWithoutTimeIsFact ==
    /\ called.op = "parseInit"
    /\ called.node.text = "(at"
    /\ Meaningful(called.node) # <<>>
    /\ parseFloat(Meaningful(called.node)[1].text) = NaN
    => called.result # None /\ called.result[1].time = "0"

\* The brackets among the children of a node
BracketsOf(node) == SelectSeq(node.children, isOpenBracket)

\* A predicate with its arguments and no bracket inside it
IsBarePredicate(node) == node.type = "OpenBracket" /\ BracketsOf(node) = <<>>

\* C26: parseVariableValue of (not FACT) returns the value parsed from FACT
\* negated, under the variable name of FACT: false for a bare predicate; it
\* returns no value when FACT has none or when the bracket holds no bracket.
NotNegatesInnerFact ==
    called.op = "parseVariableValue" /\ called.node.text = "(not"
    => /\ BracketsOf(called.node) = <<>> => called.result = None
       /\ Len(BracketsOf(called.node)) = 1
          => /\ parseVariableValue(BracketsOf(called.node)[1]) = None
                => called.result = None
             /\ parseVariableValue(BracketsOf(called.node)[1]) # None
                => /\ called.result # None
                   /\ called.result[1].variableName =
                          parseVariableValue(BracketsOf(called.node)[1])[1].variableName
                   /\ parseVariableValue(BracketsOf(called.node)[1])[1].value = "true"
                      => called.result[1].value = "false"
                   /\ parseVariableValue(BracketsOf(called.node)[1])[1].value = "false"
                      => called.result[1].value = "true"
             /\ IsBarePredicate(BracketsOf(called.node)[1])
                => called.result =
                       Some(VariableValue(getNestedText(BracketsOf(called.node)[1]), "false"))

\* parseVariableValue was called with (not (p a)) and returned p a = false.
NegatedPredicateReached ==
    /\ called.op = "parseVariableValue"
    /\ called.node = Operator("(not", <<Space, Predicate>>)
    /\ called.result = Some(VariableValue("p a", "false"))

\* C27: parseVariableValue of a (= ...) bracket whose first two children that
\* are not comments are a plain bracket and a plain token returns the nested
\* text of the bracket as the variable name and the number of the token as the
\* value; of any other (= ...) bracket it returns no value.
AssignmentIsNumeric ==
    called.op = "parseVariableValue" /\ called.node.text = "(="
    => IF /\ Len(Meaningful(called.node)) >= 2
          /\ Meaningful(called.node)[1].type = "OpenBracket"
          /\ Meaningful(called.node)[2].type = "Other"
       THEN /\ called.result # None
            /\ called.result[1].variableName = getNestedText(Meaningful(called.node)[1])
            /\ IsNumber(Meaningful(called.node)[2])
               => called.result[1].value = Meaningful(called.node)[2].text
       ELSE called.result = None

\* parseVariableValue was called with (= ; c (f) 12), a comment before the
\* bracket, and returned f = 12.
AssignmentReached ==
    /\ called.op = "parseVariableValue"
    /\ called.node = Operator("(=", <<Space, Comment, Space, Function, Space, Other("12")>>)
    /\ called.result = Some(VariableValue("f", "12"))

\* The bracket headed by forall, assign, increase or decrease that a child of
\* an :init section is or, under (at N ...), holds
UnsupportedIn(node) ==
    IF node.text \in UnsupportedHeads THEN Some(node)
    ELSE IF IsTimed(node) /\ Meaningful(node)[2].text \in UnsupportedHeads
    THEN Some(Meaningful(node)[2])
    ELSE None

\* C28: every bracket of an :init section that is headed by forall, assign,
\* increase or decrease, with or without (at N ...) around it, is in the facts
\* parseInitSection returns, as an unsupported value with the text of the
\* bracket and the time N (0 without the wrapper); the facts hold as many
\* unsupported values as the section holds such brackets.
UnsupportedIsKept ==
    called.op = "parseInitSection"
    => /\ \A j \in 1..Len(called.node.children) :
              UnsupportedIn(called.node.children[j]) # None
              => \E i \in 1..Len(called.result.inits) :
                     /\ ~called.result.inits[i].supported
                     /\ called.result.inits[i].variableName =
                            getText(UnsupportedIn(called.node.children[j])[1])
                     /\ called.result.inits[i].time =
                            (IF called.node.children[j].text = "(at"
                             THEN Meaningful(called.node.children[j])[1].text ELSE "0")
       /\ Cardinality({i \in 1..Len(called.result.inits) :
                          ~called.result.inits[i].supported})
              = Cardinality({j \in 1..Len(called.node.children) :
                                UnsupportedIn(called.node.children[j]) # None})

\* parseInitSection was called with (:init (at 5 (increase (f) (p a))) (decrease
\* (f) (p a))) and returned the two unsupported values.
UnsupportedKeptReached ==
    /\ called.op = "parseInitSection"
    /\ called.node = Operator("(:init",
           <<Space, Operator("(at", <<Space, Other("5"), Space,
                        Operator("(increase", <<Space, Function, Space, Predicate>>)>>),
             Space, Operator("(decrease", <<Space, Function, Space, Predicate>>)>>)
    /\ called.result.inits =
           <<[time |-> "5", variableName |-> "(increase (f) (p a))", value |-> Undefined,
              supported |-> FALSE],
             [time |-> "0", variableName |-> "(decrease (f) (p a))", value |-> Undefined,
              supported |-> FALSE]>>

\* A (supply-demand ...) bracket, in any case
IsSupplyDemand(node) ==
    isOpenBracket(node) /\ node.text \in {"(supply-demand", "(Supply-Demand"}

\* The children of an :init section that are (supply-demand ...) brackets whose
\* first child that is not white space is an identifier
NamedSupplyDemands(node) ==
    {j \in 1..Len(node.children) :
        /\ IsSupplyDemand(node.children[j])
        /\ getNonWhitespaceChildren(node.children[j]) # <<>>
        /\ getNonWhitespaceChildren(node.children[j])[1].type = "Other"}

\* The children of an :init section that are fact brackets with a value
FactBrackets(node) ==
    {j \in 1..Len(node.children) :
        /\ isOpenBracket(node.children[j])
        /\ ~IsSupplyDemand(node.children[j])
        /\ parseInit(node.children[j]) # None}

\* C29: parseInitSection partitions the brackets of :init: the facts come from
\* the brackets that are no (supply-demand ...), one of each that has a value;
\* the supply/demand list comes from the (supply-demand ...) brackets, one of
\* each whose first child that is not white space is an identifier, named by it.
InitSectionIsPartitioned ==
    called.op = "parseInitSection"
    => /\ Len(called.result.inits) = Cardinality(FactBrackets(called.node))
       /\ \A i \in 1..Len(called.result.inits) :
              \E j \in FactBrackets(called.node) :
                  called.result.inits[i] = parseInit(called.node.children[j])[1]
       /\ Len(called.result.supplyDemands) = Cardinality(NamedSupplyDemands(called.node))
       /\ \A i \in 1..Len(called.result.supplyDemands) :
              \E j \in NamedSupplyDemands(called.node) :
                  called.result.supplyDemands[i].name =
                      getNonWhitespaceChildren(called.node.children[j])[1].text

\* parseInitSection was called with (:init (p a) (Supply-Demand SD)) and
\* returned the fact and the supply/demand apart.
PartitionReached ==
    /\ called.op = "parseInitSection"
    /\ called.node = Operator("(:init",
           <<Space, Predicate, Space, Operator("(Supply-Demand", <<Space, Other("SD")>>)>>)
    /\ called.result = [inits |-> <<[time |-> "0", variableName |-> "p a",
                                     value |-> "true", supported |-> TRUE]>>,
                        supplyDemands |-> <<SupplyDemand("SD")>>]

\* The first position from pos on that holds no white space (past the end: none)
RECURSIVE NextInk(_, _)
NextInk(text, pos) ==
    IF pos > Len(text) \/ text[pos].type # "Whitespace" THEN pos
    ELSE NextInk(text, pos + 1)

\* The token at a position is the keyword, in any case
IsKeyword(text, pos, keyword) == pos <= Len(text) /\ ToLowerCase(text[pos].text) = keyword

\* No white space from a position to another
IsName(text, from, to) ==
    from <= to /\ \A i \in from..to : text[i].type # "Whitespace"

\* The text from a position to another as one string
Slice(text, from, to) == Concat([i \in 1..(to - from + 1) |-> text[from + i - 1].text])

\* The ends of the names that start at a position and are followed, after
\* optional white space, by a close bracket
NameEnds(text, from) ==
    {to \in from..Len(text) : IsName(text, from, to) /\ IsKeyword(text, NextInk(text, to + 1), ")")}

\* The position of the name after a keyword, which white space separates from it
NameAfter(text, keywordAt) == NextInk(text, keywordAt + 1)

\* The names DOMAIN such that the text goes on at a position, after optional
\* white space, with (:domain DOMAIN)
DomainsAt(text, pos) ==
    IF /\ IsKeyword(text, NextInk(text, pos), "(:domain")
       /\ NameAfter(text, NextInk(text, pos)) > NextInk(text, pos) + 1
    THEN {Slice(text, NameAfter(text, NextInk(text, pos)), d) :
             d \in NameEnds(text, NameAfter(text, NextInk(text, pos)))}
    ELSE {}

\* The names NAME and DOMAIN such that the text starts, after optional white
\* space, with (define (problem NAME) (:domain DOMAIN)
ProblemsAtStart(text) ==
    LET defineAt == NextInk(text, 1)
        problemAt == NextInk(text, defineAt + 1)
    IN  IF /\ IsKeyword(text, defineAt, "(define")
           /\ IsKeyword(text, problemAt, "(problem")
           /\ NameAfter(text, problemAt) > problemAt + 1
        THEN UNION {{[name |-> Slice(text, NameAfter(text, problemAt), b), domainName |-> domain] :
                        domain \in DomainsAt(text, NextInk(text, b + 1) + 1)} :
                       b \in NameEnds(text, NameAfter(text, problemAt))}
        ELSE {}

\* The names of a ProblemInfo
NamesOf(problemInfo) == [name |-> problemInfo.name, domainName |-> problemInfo.domainName]

\* The text of the document parse was called with, without its comments
CalledText == stripComments(TokensOf(called.node))

\* The text the pattern read in the call: what the pre-processor made of the
\* document's text if the parser has one, without its comments
PatternText ==
    stripComments(IF parser.problemPreParser THEN called.processed.fileText
                  ELSE TokensOf(called.node))

\* C23 as stated: parse returns a ProblemInfo, named by the two captures,
\* exactly when the text without its comments starts with (define (problem
\* NAME) (:domain DOMAIN), and undefined otherwise.
ParseReturnsProblemIffTextMatches ==
    called.op = "parse"
    => /\ called.result # None <=> ProblemsAtStart(CalledText) # {}
       /\ called.result # None => NamesOf(called.result[1]) \in ProblemsAtStart(CalledText)

\* C23, amended: a parser without a pre-processor returns a ProblemInfo named by
\* the two captures exactly when the text without its comments starts with
\* (define (problem NAME) (:domain DOMAIN), and undefined otherwise, whatever it
\* parsed before. A parser with a pre-processor reads the pre-processed text
\* instead: it returns undefined when that text does not start so, a ProblemInfo
\* named by the captures when it does and the syntax tree holds a define node,
\* and a ProblemInfo named "unknown" of domain "unknown" with one parsing problem
\* when the pre-processing fails.
ParseReturnsProblemIffPatternMatches ==
    called.op = "parse"
    => IF parser.problemPreParser /\ called.processed.error
       THEN /\ ~called.threw
            /\ called.result # None
            /\ NamesOf(called.result[1]) = [name |-> "unknown", domainName |-> "unknown"]
            /\ Len(called.result[1].parsingProblems) = 1
       ELSE /\ ProblemsAtStart(PatternText) = {} => called.result = None /\ ~called.threw
            /\ ProblemsAtStart(PatternText) # {} /\ HasDefineNode(called.node)
               => /\ ~called.threw
                  /\ called.result # None
                  /\ NamesOf(called.result[1]) \in ProblemsAtStart(PatternText)
            /\ ~parser.problemPreParser => ~called.threw

\* A parser without a pre-processor whose pattern had matched in the call before
\* was called with ; c (DEFINE (problem p) (:domain d) (:init (p a))) and returned
\* the problem p of the domain d.
ParsedAgainReached ==
    /\ called.op = "parse"
    /\ ~parser.problemPreParser
    /\ called.lastIndex > 0
    /\ called.node = DefineDocument(<<Comment, Space>>, "(DEFINE",
                         StandardProblemPart \o StandardDomainPart \o <<Space, InitSection>>)
    /\ called.result # None
    /\ NamesOf(called.result[1]) = [name |-> "p", domainName |-> "d"]

\* The define node of a syntax tree lacks the section
IsMissing(syntaxTree, keyword) ==
    getFirstOpenBracket(getFirstOpenBracket(syntaxTree, "define")[1], keyword) = None

\* C30: when the :objects, the :init or the :constraints section of a problem
\* file is missing, or its :init section holds a fact that cannot be parsed,
\* the ProblemInfo that parse returns carries a ParsingProblem.
MissingSectionIsReported ==
    /\ called.op = "parse"
    /\ called.result # None
    /\ ~called.processed.error
    /\ HasDefineNode(called.node)
    /\ \/ \E keyword \in {":objects", ":init", ":constraints"} : IsMissing(called.node, keyword)
       \/ getFirstOpenBracket(getFirstOpenBracket(called.node, "define")[1], ":init")
              = Some(MalformedInitSection)
    => called.result[1].parsingProblems # <<>>

\* C31: without force and without removal, the version stored for a URI is
\* never below a version the workspace has stored for it before, which is the
\* version of the last UPDATED it emitted for the URI.
StoredVersionNeverDecreases ==
    \A fileUri \in DOMAIN lastVersionUpdateEmitted :
        HasFileInfo(folders, fileUri)
        => getFileInfo(folders, fileUri).version >= lastVersionUpdateEmitted[fileUri]

\* C32: without removal, getFileInfo returns a FileInfo for a URI in every state
\* after the insertion of the URI has completed.
InsertedFileStaysKnown ==
    \A fileUri \in DOMAIN lastVersionUpdateEmitted : HasFileInfo(folders, fileUri)

\* The i-th smallest of a set of positions
Nth(positions, i) ==
    CHOOSE j \in positions : Cardinality({k \in positions : k < j}) = i - 1

\* C33: the facts parseInitSection returns are in the order of the text: the
\* i-th fact is the fact of the i-th bracket of the section that yields one, so
\* a bracket yields one fact at most.
InitsAreInSourceOrder ==
    called.op = "parseInitSection"
    => /\ Len(called.result.inits) <= Len(BracketsOf(called.node))
       /\ \A i \in 1..Len(called.result.inits) :
              /\ i <= Cardinality(FactBrackets(called.node))
              /\ called.result.inits[i] =
                     parseInit(called.node.children[Nth(FactBrackets(called.node), i)])[1]

\* parseInitSection was called with (:init (not (p a)) (= (f) 5)) and returned
\* p a = false before f = 5.
TwoFactsInOrderReached ==
    /\ called.op = "parseInitSection"
    /\ called.node = Operator("(:init",
           <<Space, Operator("(not", <<Space, Predicate>>),
             Space, Operator("(=", <<Space, Function, Space, Other("5")>>)>>)
    /\ called.result.inits =
           <<[time |-> "0", variableName |-> "p a", value |-> "false", supported |-> TRUE],
             [time |-> "0", variableName |-> "f", value |-> "5", supported |-> TRUE]>>

\* The event before the i-th of a sequence is the UPDATED of the same URI and version
UpdatedJustBefore(events, i) ==
    /\ i > 1
    /\ events[i - 1] = [events[i] EXCEPT !.symbol = "UPDATED"]

\* C34 as stated: whenever INSERTED is emitted, the UPDATED of the same URI and
\* version was emitted immediately before it.
InsertedFollowsUpdated ==
    \A i \in 1..Len(emitted) :
        emitted[i].symbol = "INSERTED" => UpdatedJustBefore(emitted, i)

\* C34, amended: whenever INSERTED is emitted, either the UPDATED of the same URI
\* and version was emitted immediately before it, or that UPDATED was
\* suppressed because an UPDATED of the URI with that version or a later one
\* had been emitted before the step.
InsertedFollowsUpdatedIfNew ==
    [][\A i \in 1..Len(emitted') :
           emitted'[i].symbol = "INSERTED"
           => \/ UpdatedJustBefore(emitted', i)
              \/ /\ emitted'[i].fileUri \in DOMAIN lastVersionUpdateEmitted
                 /\ lastVersionUpdateEmitted[emitted'[i].fileUri] >= emitted'[i].version]_vars

\* The insertion of problem.pddl at version 1 has emitted UPDATED and then INSERTED.
InsertedAfterUpdatedReached ==
    emitted = <<[symbol |-> "UPDATED", fileUri |-> ProblemUri, version |-> 1],
                [symbol |-> "INSERTED", fileUri |-> ProblemUri, version |-> 1]>>

\* C35: a removeFile of a file that is in the workspace and that no association
\* keeps returns true, emits one REMOVING event, which carries the stored
\* FileInfo and whose listener finds the file in its folder, and leaves the
\* file out of the workspace; any other removeFile returns false, emits nothing
\* and leaves the folders as they are.
RemoveFileEmitsRemovingOnce ==
    [][\A fileUri \in LinkUris, removeAllReferences \in BOOLEAN :
          RemoveFile(fileUri, removeAllReferences)
          => IF /\ HasFileInfo(folders, fileUri)
                /\ removeAllReferences \/ ~InAssociation(fileUri)
             THEN /\ removeFile(WS, fileUri, removeAllReferences).result
                  /\ emitted' = <<Event("REMOVING", getFileInfo(folders, fileUri))>>
                  /\ removeFile(WS, fileUri, removeAllReferences).listened # None
                  /\ HasFileInfo(removeFile(WS, fileUri, removeAllReferences).listened[1],
                                 fileUri)
                  /\ getFileInfo(removeFile(WS, fileUri, removeAllReferences).listened[1],
                                 fileUri) = getFileInfo(folders, fileUri)
                  /\ ~HasFileInfo(folders', fileUri)
             ELSE /\ ~removeFile(WS, fileUri, removeAllReferences).result
                  /\ emitted' = <<>>
                  /\ folders' = folders]_vars

\* removeFile has removed the plan, which an association had been made for, and
\* has emitted its REMOVING event.
AssociatedPlanRemovedReached ==
    /\ emitted = <<[symbol |-> "REMOVING", fileUri |-> PlanUri, version |-> 0]>>
    /\ removed[PlanUri]
    /\ InAssociation(PlanUri)
    /\ ~HasFileInfo(folders, PlanUri)

\* C36: every problem of the workspace whose domain getDomainFileFor finds is
\* among the problems getProblemFiles finds for that domain.
DomainLookupIsInverted ==
    \A problemInfo \in Range(getAllFiles(folders)) :
        problemInfo.kind = "Problem" /\ getDomainFileFor(WS, problemInfo) # None
        => problemInfo \in Range(getProblemFiles(folders, getDomainFileFor(WS, problemInfo)[1]))

\* The one domain of a problem: the domain of its explicit association, or else
\* the domain of its folder that has the name the problem states when one
\* domain has it and no more; as a set
OneDomainOf(problems) ==
    UNION {LET domains == IF problem.fileUri \in DOMAIN problemToDomainMap
                          THEN StoredAt(problemToDomainMap[problem.fileUri])
                          ELSE DomainsByName(problem)
           IN  IF Cardinality(domains) = 1 THEN domains ELSE {} : problem \in problems}

\* A file of no kind, which no folder stores
UnknownFile == parseFile(GitUri, "PDDL", 0, OtherText)

UnknownLanguageFailsAndStoresNothing ==
    [][\A doc \in docs, version \in Versions :
          /\ \/ \E force \in BOOLEAN : UpsertFile(doc, version, force)
             \/ UpsertAndParseFile(doc, version)
          /\ parseFileThrows(doc.language)
          /\ ~HasFileInfo(folders, doc.fileUri)
          => /\ thrown' = <<UnknownLanguage(doc.language)>>
             /\ getAllFiles(folders') = getAllFiles(folders)
             /\ ~HasFileInfo(folders', doc.fileUri)
             /\ tasks' = tasks
             /\ microtasks' = microtasks
             /\ \A i \in 1..Len(emitted') : emitted'[i].symbol \notin {"UPDATED", "INSERTED"}]_vars

\* A caller has got the error for the domain's URI while the problem was stored,
\* and the domain's URI is not stored.
UnknownLanguageThrownReached ==
    /\ thrown = <<UnknownLanguage("XML")>>
    /\ HasFileInfo(folders, ProblemUri)
    /\ ~HasFileInfo(folders, DomainUri)
    /\ HasFolder(folders, getFolderPath(DomainUri))

\* C39: when the pre-processing of a parser that has a pre-processor fails, parse
\* does not throw and does not return undefined: it returns a ProblemInfo named
\* "unknown" of the domain "unknown", with the empty syntax tree, the text parse
\* was called with and nothing parsed from it, and exactly one parsing problem,
\* which carries the message of the error, and its line and column when the
\* error is a PreProcessingError.
FailedPreProcessingIsReported ==
    called.op = "parse" /\ parser.problemPreParser /\ called.processed.error
    => /\ ~called.threw
       /\ called.result # None
       /\ called.result[1].name = "unknown"
       /\ called.result[1].domainName = "unknown"
       /\ called.result[1].syntaxTree = EmptyTree
       /\ called.result[1].text = TokensOf(called.node)
       /\ called.result[1].inits = <<>>
       /\ Len(called.result[1].parsingProblems) = 1
       /\ called.result[1].parsingProblems[1].problem = called.processed.message
       /\ called.processed.instance = "PreProcessingError"
          => called.result[1].parsingProblems[1]
                 = ParsingProblem(called.processed.message, called.processed.line,
                                  called.processed.column)

\* The pre-processing of a problem text with an :init section has failed with a
\* PreProcessingError and parse has returned the ProblemInfo named "unknown".
FailedPreProcessingReached ==
    /\ called.op = "parse"
    /\ parser.problemPreParser
    /\ called.processed = PreProcessingError
    /\ ProblemsAtStart(CalledText) # {}
    /\ ~IsMissing(called.node, ":init")
    /\ called.result # None
    /\ called.result[1].name = "unknown"

\* The brackets around the node at the path that are operators of one of the
\* two sets, by their depth
Deciding(syntaxTree, path) ==
    {depth \in 0..(Len(path) - 1) :
        LET around == NodeAt(syntaxTree, SubSeq(path, 1, depth))
        IN  /\ around.type = "OpenBracketOperator"
            /\ around.text \in FunctionOperators \cup PredicateOperators}

Deepest(depths) == CHOOSE depth \in depths : \A other \in depths : other <= depth

\* C40: createEdit takes the type from the innermost bracket around the node
\* that is an operator of one of the two sets, Function for an arithmetic, a
\* comparison or a numeric-effect operator and Predicate for and, not, or,
\* at start, over all, at end and forall, whatever other brackets lie between;
\* its walk takes no more passes than the node has brackets around it; and
\* when no bracket around the node is of either set it throws and returns no
\* edit.  When it returns an edit, the edit is for the section of that type.
CreateEditDecidesByInnermostOperator ==
    called.op = "createEdit"
    => LET deciding == Deciding(called.node, called.path)
           done == called.result[1]
       IN  /\ done.steps <= Len(called.path)
           /\ IF deciding = {}
              THEN done.threw /\ done.edit = None /\ done.type = "Undecided"
              ELSE LET innermost ==
                           NodeAt(called.node, SubSeq(called.path, 1, Deepest(deciding)))
                   IN  /\ innermost.text \in FunctionOperators => done.type = "Function"
                       /\ innermost.text \in PredicateOperators => done.type = "Predicate"
                       /\ done.steps = Len(called.path) - Deepest(deciding)
                       /\ done.edit # None
                          => done.edit[1].section
                                 = IF done.type = "Function" THEN ":functions"
                                   ELSE ":predicates"

\* createEdit was called for (f) in (and (when (increase (f)))) and has returned
\* an edit of the :functions section, of the type Function.
FunctionWithinConditionReached ==
    /\ called.op = "createEdit"
    /\ NodeAt(called.node, getParent(called.path)).text = "(increase"
    /\ NodeAt(called.node, getParent(getParent(called.path))).text = "(when"
    /\ NodeAt(called.node, getParent(getParent(getParent(called.path)))).text = "(and"
    /\ ~called.result[1].threw
    /\ called.result[1].type = "Function"
    /\ called.result[1].edit # None

\* createEdit was called for (f) in (:init (at (f))) within the define bracket,
\* has walked up to the document and has thrown.
UndecidedAtDocumentReached ==
    /\ called.op = "createEdit"
    /\ Len(called.path) = 4
    /\ NodeAt(called.node, getParent(called.path)).text = "(at"
    /\ NodeAt(called.node, getParent(getParent(called.path))).text = "(:init"
    /\ called.result[1].threw
    /\ called.result[1].edit = None
    /\ called.result[1].steps = 4

====
